---- MODULE Spec2Model ----
(***************************************************************************)
(* Admission pipeline of namngam-web: the in-memory rate limiter           *)
(* (lib/security.ts rateLimit and the block inlined in middleware.ts),     *)
(* the session gate of the middleware, and the CSRF token manager          *)
(* (lib/csrf.ts).                                                          *)
(*                                                                         *)
(* Time is Date.now() in milliseconds.  The clock advances by steps drawn  *)
(* from a small set that contains 1 ms and the program's own durations, so *)
(* that "exactly at" and "just after" a deadline are both reached while    *)
(* the durations keep their source values.                                 *)
(*                                                                         *)
(* JavaScript runs one handler at a time and switches handlers only at an  *)
(* await: every action below is the code between two awaits.               *)
(***************************************************************************)
EXTENDS Integers, Sequences, FiniteSets, TLC

VARIABLES
  now,             \* Date.now(), ms
  ticks,           \* number of clock steps taken so far
  SECURITY_CONFIG, \* the exported configuration object, fixed after Init
  rateLimitStore,  \* lib/security.ts: Map identifier -> {count, resetTime}
  rlLimit,         \* the maxRequests argument the callers pass per identifier
  rlSeq,           \* history: number of rateLimit calls made per identifier
  rlFirstAt,       \* history: time of the first rateLimit call per identifier
  rlLast,          \* history: the last rateLimit call and what it returned
  apiRateLimit,    \* middleware.ts: Map key -> {count, resetTime}
  handlers,        \* middleware invocations suspended at await getToken
  mwCount,         \* history: number of requests taken
  mwSeq,           \* history: number of rate-limited requests per client IP
  mwFirstAt,       \* history: time of the first rate-limited request per IP
  mwAdmitted,      \* history: requests per IP passed by the rate limit in
                   \* the window that its first request opened
  mwLast,          \* history: the last response the middleware produced
  routed,          \* requests to /api/upload the middleware has passed on and
                   \* the route has not taken yet, oldest first
  csrfTokens,      \* lib/csrf.ts: Map sessionToken -> {token, expires}
  tokenCtr,        \* number of tokens randomBytes has produced so far
  csrfHandlers,    \* withCSRFProtection invocations suspended at their await
  csrfCount,       \* history: number of wrapped requests taken
  csrfIssued,      \* history: per session, the tokens issued
  csrfIssuedAt,    \* history: per session, the time of the last issue
  csrfLast,        \* history: the last response of the wrapper or endpoint
  processEnv,      \* process.env, fixed after Init
  boot,            \* "loading" until the start-up validation has run, then
                   \* "serving", or "aborted" when it threw
  envValidation,   \* what validateEnvironmentVariables returned at start-up
  console,         \* what the start-up validation wrote to the console
  redisStore,      \* the Redis server: key -> {count, expireAt}
  redisCall,       \* the redisRateLimit invocation suspended at an await
  redisSeen,       \* history: per key, the number of INCRs and the times of
                   \* the first and of the latest one
  redisLast,       \* history: the last redisRateLimit call and its result
  clients          \* lib/csrf-client.ts: per client, the module variable
                   \* csrfToken and the position of its fetchWithCSRF call

envVars == <<processEnv, boot, envValidation, console>>

redisVars == <<redisStore, redisCall, redisSeen, redisLast>>

\* What no action but the clock, the start-up and redisRateLimit changes
serverVars == <<now, ticks, SECURITY_CONFIG, envVars, redisVars>>

\* The same and the state of the clients, which only the clients change
clockVars == <<serverVars, clients>>
rlVars == <<rateLimitStore, rlLimit, rlSeq, rlFirstAt, rlLast>>
mwVars == <<apiRateLimit, handlers, mwCount, mwSeq, mwFirstAt, mwAdmitted,
            mwLast>>

csrfVars == <<csrfTokens, tokenCtr, csrfHandlers, csrfCount, csrfIssued,
              csrfIssuedAt, csrfLast>>

vars == <<clockVars, rlVars, mwVars, routed, csrfVars>>

(***************************************************************************)
(* Bounds of the model                                                     *)
(***************************************************************************)
MaxLimit == 2       \* largest scaled-down request limit
MaxChecks == 4      \* rate-limit checks per behaviour
E2EExtra == 2       \* requests sent beyond the limit in the end-to-end run
E2EMaxTicks == 1    \* clock steps per behaviour of the end-to-end run
MaxRequests == 3    \* requests per behaviour of the middleware
MwMaxTicks == 2     \* clock steps per behaviour of the middleware
MaxCsrfOps == 3     \* token issues and wrapped requests per behaviour
MaxPipeRequests == 3  \* requests per behaviour of the whole pipeline
PipeLimit == 2      \* scaled-down request limit of the whole pipeline
PipeMaxTicks == 1   \* clock steps per behaviour of the whole pipeline
CsrfMaxTicks == 2   \* clock steps per behaviour of the CSRF token manager

(***************************************************************************)
(* Program constants                                                       *)
(***************************************************************************)
RATE_LIMIT_WINDOW == 15 * 60 * 1000
RATE_LIMIT_MAX_REQUESTS == 100
CSRF_LIFETIME == 24 * 60 * 60 * 1000   \* "24 hours" in setCSRFToken

\* The configuration as the source sets it.
SourceConfig ==
  [RATE_LIMIT_WINDOW |-> RATE_LIMIT_WINDOW,
   RATE_LIMIT_MAX_REQUESTS |-> RATE_LIMIT_MAX_REQUESTS]

\* The same object with the request limit overridden by a small value
\* (the window keeps its source value).
ScaledConfigs ==
  {[RATE_LIMIT_WINDOW |-> RATE_LIMIT_WINDOW, RATE_LIMIT_MAX_REQUESTS |-> m] :
     m \in 1..MaxLimit}

Identifiers == {"login:A", "upload:A"}

\* maxRequests passed by the caller of rateLimit for each identifier; the
\* default parameter value is SECURITY_CONFIG.RATE_LIMIT_MAX_REQUESTS.
MaxRequestsArgs == 0..MaxLimit

(***************************************************************************)
(* process.env and its validation at start-up                              *)
(*                                                                         *)
(* A value of process.env is a sequence of pieces whose concatenation is   *)
(* the string; <<>> is a variable that is unset or empty.  The pieces are  *)
(* cut so that startsWith, the anchored patterns and the parts of a URL    *)
(* can be read off them.                                                   *)
(***************************************************************************)
Unset == <<>>

Random32 == <<"q7Lx0vN2", "pZ4mWc8T", "yB1sHd6K", "uE3jRf9A">>
Random31 == <<"q7Lx0vN2", "pZ4mWc8T", "yB1sHd6K", "uE3jRf9">>
Random16 == <<"q7Lx0vN2", "pZ4mWc8T">>

\* 'weakpassword', the secret of the test "should detect weak NEXTAUTH_SECRET"
WeakPassword == <<"weak", "password">>

Repeat(piece, n) == [i \in 1..n |-> piece]

\* number of characters of a piece
PieceLength(piece) ==
  CASE piece = "a" -> 1
    [] piece = "Test" -> 4
    [] piece = "weak" -> 4
    [] piece = "uE3jRf9" -> 7
    [] OTHER -> 8

RECURSIVE Length(_)
\* String.prototype.length
Length(str) ==
  IF str = <<>> THEN 0 ELSE PieceLength(Head(str)) + Length(Tail(str))

Secrets ==
  {Unset, Random16, Random31, Random32, WeakPassword,
   <<"password">> \o SubSeq(Random32, 1, 3), <<"Test">> \o Random32,
   Repeat("a", 16), Repeat("a", 32)}

\* the i flag of the patterns
LowerCase(piece) == IF piece = "Test" THEN "test" ELSE piece

\* /^(test|dev|example|default)/i and /^(123|password|secret)/i: no piece of
\* the model begins with one of the words without being it
MatchesLead(str, words) == str # <<>> /\ LowerCase(str[1]) \in words

\* /^(.)\1{31,}$/: one character followed by 31 or more copies of it
MatchesAllSame(str) ==
  /\ Len(str) >= 1 + 31
  /\ \A i \in 1..Len(str) : PieceLength(str[i]) = 1 /\ str[i] = str[1]

\* "for (const pattern of weakPatterns) if (pattern.test(...))"
MatchesWeakPattern(str) ==
  \/ MatchesLead(str, {"test", "dev", "example", "default"})
  \/ MatchesLead(str, {"123", "password", "secret"})
  \/ MatchesAllSame(str)

Schemes == {"postgresql://", "mysql://", "https://", "http://", "ftp://"}

\* new URL(str): it throws unless the string begins with a scheme; protocol
\* is the scheme with its colon, hostname the piece after the scheme.
NewURL(str) ==
  IF str = <<>> \/ str[1] \notin Schemes
    THEN [throws |-> TRUE, protocol |-> "", hostname |-> ""]
    ELSE [throws |-> FALSE,
          protocol |-> CASE str[1] = "postgresql://" -> "postgresql:"
                         [] str[1] = "mysql://" -> "mysql:"
                         [] str[1] = "https://" -> "https:"
                         [] str[1] = "http://" -> "http:"
                         [] OTHER -> "ftp:",
          hostname |-> IF Len(str) >= 2 THEN str[2] ELSE ""]

DatabaseUrls ==
  {Unset, <<"postgresql://", "db.internal", "/namngam">>,
   <<"postgresql://", "localhost", "/namngam">>,
   <<"mysql://", "db.internal", "/namngam">>, <<"db.internal", "/namngam">>}

AuthUrls ==
  {Unset, <<"https://", "namngam.com">>, <<"http://", "namngam.com">>,
   <<"ftp://", "namngam.com">>, <<"namngam.com">>}

\* "" is NODE_ENV unset
NodeEnvs == {"", "development", "production", "test", "staging"}

Envs ==
  [NODE_ENV : NodeEnvs, DATABASE_URL : DatabaseUrls, NEXTAUTH_URL : AuthUrls,
   NEXTAUTH_SECRET : Secrets, REDIS_URL : {Unset, <<"redis://", "cache">>},
   GOOGLE_ANALYTICS_ID : {Unset}, FACEBOOK_PIXEL_ID : {Unset}]

\* "if (cond) errors.push(message)" as the sequence pushed
Push(cond, message) == IF cond THEN <<message>> ELSE <<>>

\* "if (!process.env[envVar]) errors.push(`Missing required ...: ${envVar}`)"
MissingRequired(envVar, unset) ==
  Push(unset, "Missing required environment variable: " \o envVar)

\* Faulty variant: the minimum length halved
SecretTooShortHalf(secret) == Length(secret) < 16

\* "process.env.NEXTAUTH_SECRET.length < 32"
SecretTooShort(secret) == Length(secret) < 32

\* lib/security.ts validateEnvironmentVariables, process.env being env
validateEnvironmentVariables(env) ==
  LET errors ==
        MissingRequired("DATABASE_URL", env.DATABASE_URL = Unset)
        \o MissingRequired("NEXTAUTH_URL", env.NEXTAUTH_URL = Unset)
        \o MissingRequired("NEXTAUTH_SECRET", env.NEXTAUTH_SECRET = Unset)
        \o Push(env.NEXTAUTH_SECRET # Unset
                  /\ SecretTooShort(env.NEXTAUTH_SECRET),
                "NEXTAUTH_SECRET should be at least 32 characters long")
        \o Push(env.DATABASE_URL # Unset
                  /\ env.DATABASE_URL[1] # "postgresql://",
                "DATABASE_URL should start with postgresql://")
  IN  [valid |-> Len(errors) = 0, errors |-> errors]

\* lib/env-validator.ts validateEnvironmentVariables (the enhanced validator
\* of the security guide), process.env being env
validateEnvironmentVariablesEnhanced(env) ==
  LET dbUrl == NewURL(env.DATABASE_URL)
      authUrl == NewURL(env.NEXTAUTH_URL)
      production == env.NODE_ENV = "production"
      errors ==
        MissingRequired("DATABASE_URL", env.DATABASE_URL = Unset)
        \o MissingRequired("NEXTAUTH_URL", env.NEXTAUTH_URL = Unset)
        \o MissingRequired("NEXTAUTH_SECRET", env.NEXTAUTH_SECRET = Unset)
        \o MissingRequired("NODE_ENV", env.NODE_ENV = "")
        \o (IF env.DATABASE_URL = Unset THEN <<>>
            ELSE IF dbUrl.throws THEN <<"DATABASE_URL is not a valid URL">>
            ELSE Push(dbUrl.protocol # "postgresql:",
                      "DATABASE_URL must use postgresql:// protocol"))
        \o (IF env.NEXTAUTH_URL = Unset THEN <<>>
            ELSE IF authUrl.throws THEN <<"NEXTAUTH_URL is not a valid URL">>
            ELSE Push(authUrl.protocol \notin {"http:", "https:"},
                      "NEXTAUTH_URL must use http:// or https:// protocol")
                 \o Push(production /\ authUrl.protocol # "https:",
                         "NEXTAUTH_URL must use https:// in production"))
        \o (IF env.NEXTAUTH_SECRET = Unset THEN <<>>
            ELSE Push(SecretTooShort(env.NEXTAUTH_SECRET),
                      "NEXTAUTH_SECRET must be at least 32 characters long")
                 \o Push(MatchesWeakPattern(env.NEXTAUTH_SECRET),
                         "NEXTAUTH_SECRET appears to be weak or default"))
        \o Push(env.NODE_ENV # ""
                  /\ env.NODE_ENV \notin {"development", "production", "test"},
                "NODE_ENV must be one of: development, production, test")
      warnings ==
        Push(env.REDIS_URL = Unset,
             "Missing recommended environment variable: REDIS_URL")
        \o Push(env.GOOGLE_ANALYTICS_ID = Unset,
                "Missing recommended environment variable: GOOGLE_ANALYTICS_ID")
        \o Push(env.FACEBOOK_PIXEL_ID = Unset,
                "Missing recommended environment variable: FACEBOOK_PIXEL_ID")
        \o Push(env.DATABASE_URL # Unset /\ ~dbUrl.throws
                  /\ dbUrl.hostname \in {"", "localhost"} /\ production,
                "DATABASE_URL should not use localhost in production")
  IN  [valid |-> Len(errors) = 0, errors |-> errors, warnings |-> warnings]

(***************************************************************************)
(* Map entries {count, resetTime}; Map.get of a missing key is undefined   *)
(***************************************************************************)
NoEntry == [present |-> FALSE, count |-> 0, resetTime |-> 0]

Entry(c, r) == [present |-> TRUE, count |-> c, resetTime |-> r]

EmptyMap(keys) == [k \in keys |-> NoEntry]

(***************************************************************************)
(* lib/security.ts: rateLimit                                              *)
(***************************************************************************)
\* Faulty variant: the clean-up compares with the windowStart of line 41
IsOldEntryWindowStart(value, t) == value.resetTime < t - RATE_LIMIT_WINDOW

\* Faulty variant: the clean-up deletes every entry made before now
IsOldEntryMadeBefore(value, t) == value.resetTime - RATE_LIMIT_WINDOW < t

\* "if (value.resetTime < now)" of the clean-up loop
IsOldEntry(value, t) == value.resetTime < t

\* rateLimitStore.forEach(... delete ...)
CleanUp(store, t) ==
  [k \in DOMAIN store |->
     IF store[k].present /\ IsOldEntry(store[k], t) THEN NoEntry ELSE store[k]]

\* "if (current.count >= maxRequests)"
LimitReached(count, maxRequests) == count >= maxRequests

\* The three object literals rateLimit returns.  A field the literal does not
\* have is undefined in JavaScript: hasRemaining / hasResetTime say whether
\* the field exists.
FirstResult(maxRequests) ==
  [success |-> TRUE, hasRemaining |-> TRUE, remaining |-> maxRequests - 1,
   hasResetTime |-> FALSE, resetTime |-> 0, error |-> ""]

RejectResult(current) ==
  [success |-> FALSE, hasRemaining |-> FALSE, remaining |-> 0,
   hasResetTime |-> TRUE, resetTime |-> current.resetTime,
   error |-> "Rate limit exceeded"]

NextResult(maxRequests, count) ==
  [success |-> TRUE, hasRemaining |-> TRUE, remaining |-> maxRequests - count,
   hasResetTime |-> FALSE, resetTime |-> 0, error |-> ""]

NoResult ==
  [success |-> FALSE, hasRemaining |-> FALSE, remaining |-> 0,
   hasResetTime |-> FALSE, resetTime |-> 0, error |-> ""]

\* rateLimit(identifier, maxRequests) called at time t on the given store:
\* the store afterwards and the value returned.
rateLimit(store, cfg, identifier, maxRequests, t) ==
  LET swept == CleanUp(store, t)
      current == swept[identifier]
  IN  IF ~current.present
        THEN [store |-> [swept EXCEPT ![identifier] =
                           Entry(1, t + cfg.RATE_LIMIT_WINDOW)],
              result |-> FirstResult(maxRequests)]
      ELSE IF LimitReached(current.count, maxRequests)
        THEN [store |-> swept, result |-> RejectResult(current)]
      ELSE [store |-> [swept EXCEPT ![identifier].count = @ + 1],
            result |-> NextResult(maxRequests, current.count + 1)]

NoCall ==
  [called |-> FALSE, key |-> "", at |-> 0, n |-> 0, limit |-> 0,
   pre |-> NoEntry, post |-> NoEntry, result |-> NoResult]

\* One call rateLimit(identifier, rlLimit[identifier]).
RateLimitCall(identifier) ==
  /\ LET maxRequests == rlLimit[identifier]
         r == rateLimit(rateLimitStore, SECURITY_CONFIG, identifier,
                        maxRequests, now)
     IN  /\ rateLimitStore' = r.store
         /\ rlLast' = [called |-> TRUE, key |-> identifier, at |-> now,
                       n |-> rlSeq[identifier] + 1, limit |-> maxRequests,
                       pre |-> rateLimitStore[identifier],
                       post |-> r.store[identifier], result |-> r.result]
  /\ rlSeq' = [rlSeq EXCEPT ![identifier] = @ + 1]
  /\ rlFirstAt' = [rlFirstAt EXCEPT ![identifier] =
                     IF rlSeq[identifier] = 0 THEN now ELSE @]
  /\ UNCHANGED <<clockVars, rlLimit, mwVars, routed, csrfVars>>

(***************************************************************************)
(* Requests                                                                *)
(*                                                                         *)
(* A pathname is a sequence of pieces whose concatenation is the string;   *)
(* the pieces are cut at the places the code's prefix tests look at, so    *)
(* startsWith on the string is the prefix test on the sequence.            *)
(***************************************************************************)
StartsWith(path, prefix) ==
  /\ Len(path) >= Len(prefix)
  /\ SubSeq(path, 1, Len(prefix)) = prefix

ApiProducts == <<"/api", "/products">>
ApiPublicSettings == <<"/api", "/public/settings">>
AdminLogin == <<"/admin", "/login">>
AdminProducts == <<"/admin", "/products">>
NextStatic == <<"/_next", "/static">>
PublicAbout == <<"/about">>
UploadsDir == <<"/uploads", "/products">>
AdminExport == <<"/admin", "/export.csv">>
ApiUpload == <<"/api", "/upload">>
ApiProductFile == <<"/api", "/products/1.json">>

\* the pieces above that contain the character "."
DottedPieces == {"/export.csv", "/products/1.json"}

\* config.matcher '/((?!_next|_vercel|.*\\..*).*)': Next.js calls the
\* middleware only for a pathname whose part after the first "/" does not
\* begin with _next or _vercel and contains no "."
Matcher(pathname) ==
  /\ ~StartsWith(pathname, <<"/_next">>)
  /\ ~StartsWith(pathname, <<"/_vercel">>)
  /\ \A i \in 1..Len(pathname) : pathname[i] \notin DottedPieces

\* x-forwarded-for values, as the list split(',') gives
NoHeader == <<>>

\* String.prototype.trim on the header entries the model sends
Trim(s) == CASE s = " A" -> "A" [] s = " " -> "" [] OTHER -> s

\* Faulty variant: the real-IP header is looked at before the forwarded-for one
getClientIPRealFirst(request) ==
  IF request.realIP # "" THEN request.realIP
  ELSE IF request.forwarded # NoHeader THEN Trim(request.forwarded[1])
  ELSE IF request.ip # "" THEN request.ip
  ELSE "unknown"

\* lib/security.ts: getClientIP.  An absent header and an empty one are both
\* falsy; the model writes both as the empty list / empty string.
getClientIP(request) ==
  IF request.forwarded # NoHeader THEN Trim(request.forwarded[1])
  ELSE IF request.realIP # "" THEN request.realIP
  ELSE IF request.ip # "" THEN request.ip
  ELSE "unknown"

ClientIPs == {"A", "B", "unknown", ""}

\* The session cookie: absent, present with a signature that does not verify,
\* or a signed JWT whose exp claim (seconds) may be missing.
\* A signed JWT also carries the subject and the role of the user.
NoCred == [kind |-> "none", hasExp |-> FALSE, exp |-> 0, sub |-> "",
           role |-> ""]
BadCred == [kind |-> "bad", hasExp |-> FALSE, exp |-> 0, sub |-> "u1",
            role |-> "ADMIN"]
SignedCred(e) == [kind |-> "signed", hasExp |-> TRUE, exp |-> e, sub |-> "u1",
                  role |-> "ADMIN"]
SignedNoExp == [kind |-> "signed", hasExp |-> FALSE, exp |-> 0, sub |-> "u1",
                role |-> "ADMIN"]

\* exp claims the model sends: 0, and the second at which the first
\* rate-limit window of a behaviour ends
ExpValues == {0, RATE_LIMIT_WINDOW \div 1000}

Creds == {NoCred, BadCred, SignedNoExp} \cup {SignedCred(e) : e \in ExpValues}

\* generateCSRFToken returns randomBytes(32) in hex.  Two draws of 256 random
\* bits are taken to differ: the k-th token drawn is the number k.  0 stands
\* for a missing (null or empty) x-csrf-token header.
NoToken == 0

\* a header value that no draw of randomBytes ever equals
WrongToken == -1

\* A request to a wrapped route or to the token endpoint: method, the two
\* session cookies ("" when the cookie is absent or empty), x-csrf-token.
\* log is history: the stages the request has been through, in the order in
\* which the code ran them: "identity" (getClientIP), "headers" (the security
\* headers are set), "rate" (the rate-limit block), "auth" (getToken and the
\* tests on its result), "csrf" (the tests of withCSRFProtection), "forward"
\* (the request is handed to the application: to the wrapped handler or the
\* token endpoint for /api/upload, else by "return response").
CsrfReq(method, plain, secure, header) ==
  [method |-> method, plain |-> plain, secure |-> secure, header |-> header,
   log |-> <<>>]

AddLog(routeRequest, stages) == [routeRequest EXCEPT !.log = @ \o stages]

NoCsrfReq == CsrfReq("", "", "", NoToken)

\* a GET without session cookies and without x-csrf-token
PlainGet == CsrfReq("GET", "", "", NoToken)

\* An HTTP request as the middleware reads it (pathname, the three sources of
\* the client address, the session cookie as a JWT) together with what its
\* route reads of it (route).
Req(path, forwarded, realIP, ip, cred, route) ==
  [path |-> path, forwarded |-> forwarded, realIP |-> realIP, ip |-> ip,
   cred |-> cred, route |-> route]

NoReq == Req(<<>>, NoHeader, "", "", NoCred, NoCsrfReq)

Logged(request, stages) == [request EXCEPT !.route = AddLog(@, stages)]

\* next-auth getToken: null unless the cookie carries a JWT that verifies
\* against NEXTAUTH_SECRET; otherwise the decoded payload.
getToken(cred) ==
  [isNull |-> cred.kind # "signed", hasExp |-> cred.hasExp, exp |-> cred.exp,
   sub |-> cred.sub, role |-> cred.role]

\* "token.exp && typeof token.exp === 'number' && token.exp < Date.now() / 1000"
\* (exp < t / 1000 in floating point is exp * 1000 < t on the integers)
TokenExpired(token, t) ==
  /\ token.hasExp
  /\ token.exp # 0
  /\ token.exp * 1000 < t

(***************************************************************************)
(* Responses                                                               *)
(***************************************************************************)
\* What the middleware hands on with the request: nothing.  NextResponse.next()
\* is called without a `request` option and no header is set on the request,
\* so the decoded token stays local to the middleware.
NoSessionContext == [attached |-> FALSE, subject |-> "", role |-> "",
                     expiry |-> 0]

\* location is the pathname of the URL a redirect goes to; callbackUrl and
\* error are its query parameters ("" / <<>> when absent).
Response(kind, status, body, secHeaders, location, callbackUrl, error) ==
  [kind |-> kind, status |-> status, body |-> body, secHeaders |-> secHeaders,
   location |-> location, callbackUrl |-> callbackUrl, error |-> error,
   sessionContext |-> NoSessionContext]

NoBody == [success |-> TRUE, error |-> ""]

NoResponse == Response("none", 0, NoBody, FALSE, <<>>, <<>>, "")

\* "return response": NextResponse.next() carrying the five security headers
NextResponseNext == Response("next", 200, NoBody, TRUE, <<>>, <<>>, "")

\* new NextResponse(JSON.stringify({success: false, error: ...}), {status: 429})
RateLimitResponse ==
  Response("json", 429, [success |-> FALSE, error |-> "Rate limit exceeded"],
           FALSE, <<>>, <<>>, "")

\* Faulty variant: the redirect built without the callbackUrl parameter
LoginRedirectNoCallback(pathname) ==
  Response("redirect", 307, NoBody, FALSE, AdminLogin, <<>>, "")

\* NextResponse.redirect(url) to /admin/login with callbackUrl = pathname
LoginRedirect(pathname) ==
  Response("redirect", 307, NoBody, FALSE, AdminLogin, pathname, "")

\* the same with error=session_expired
ExpiredRedirect(pathname) ==
  Response("redirect", 307, NoBody, FALSE, AdminLogin, pathname,
           "session_expired")

\* intlMiddleware(request); Object.entries of a Headers object is empty, so
\* the copy loop adds nothing
IntlResponse == Response("intl", 200, NoBody, FALSE, <<>>, <<>>, "")

\* The request goes to its route without the middleware having been called.
DirectResponse == Response("direct", 200, NoBody, FALSE, <<>>, <<>>, "")

\* The promise middleware() returned is rejected: no statement of the function
\* is inside a try block, so an exception thrown in it reaches the caller.
UnhandledFailure == Response("failure", 500, NoBody, FALSE, <<>>, <<>>, "")

(***************************************************************************)
(* middleware.ts: middleware                                               *)
(***************************************************************************)
\* lines 44-49
SkipsI18n(pathname) ==
  \/ StartsWith(pathname, <<"/admin">>)
  \/ StartsWith(pathname, <<"/api">>)
  \/ StartsWith(pathname, <<"/_next">>)
  \/ StartsWith(pathname, <<"/uploads">>)

\* Faulty variant: the test for the /api prefix left out
IsRateLimitedNoApiTest(pathname) ==
  ~StartsWith(pathname, ApiPublicSettings)

\* line 51
IsRateLimited(pathname) ==
  /\ StartsWith(pathname, <<"/api">>)
  /\ ~StartsWith(pathname, ApiPublicSettings)

\* line 83
IsProtected(pathname) ==
  /\ StartsWith(pathname, <<"/admin">>)
  /\ pathname # AdminLogin

\* "if (value.resetTime < now)" of the middleware's clean-up loop
MwIsOldEntry(value, t) == value.resetTime < t

MwCleanUp(map, t) ==
  [k \in DOMAIN map |->
     IF map[k].present /\ MwIsOldEntry(map[k], t) THEN NoEntry ELSE map[k]]

\* Faulty variant: the comparison written with > instead of >=
MwLimitReachedStrict(count, cfg) == count > cfg.RATE_LIMIT_MAX_REQUESTS

\* "if (current.count >= SECURITY_CONFIG.RATE_LIMIT_MAX_REQUESTS)"
MwLimitReached(count, cfg) == count >= cfg.RATE_LIMIT_MAX_REQUESTS

\* lines 52-79: the map afterwards and whether the 429 is returned.  The map
\* key is `api:${clientIP}`; the model keys the map by clientIP.
ApiRateLimitBlock(map, cfg, clientIP, t) ==
  LET swept == MwCleanUp(map, t)
      current == swept[clientIP]
  IN  IF ~current.present
        THEN [map |-> [swept EXCEPT ![clientIP] =
                         Entry(1, t + cfg.RATE_LIMIT_WINDOW)],
              limited |-> FALSE]
      ELSE IF MwLimitReached(current.count, cfg)
        THEN [map |-> swept, limited |-> TRUE]
      ELSE [map |-> [swept EXCEPT ![clientIP].count = @ + 1],
            limited |-> FALSE]

Handlers == {1, 2}

IdleHandler == [pc |-> "idle", req |-> NoReq]

NoServed ==
  [served |-> FALSE, req |-> NoReq, clientIP |-> "", decidedAt |-> 0, rateChecked |-> FALSE, n |-> 0, pre |-> NoEntry,
   post |-> NoEntry, response |-> NoResponse]

Served(req, ip, decidedAt, rateChecked, n, pre, post, response) ==
  [served |-> TRUE, req |-> req, clientIP |-> ip, decidedAt |-> decidedAt, rateChecked |-> rateChecked, n |-> n,
   pre |-> pre, post |-> post, response |-> response]

\* The middleware from its entry to its first await or to its return.  After
\* "return response" Next.js passes the request on to its route; of the
\* routes only /api/upload is followed further (routed).
MiddlewareStart(h, request) ==
  /\ boot = "serving"
  /\ Matcher(request.path)
  /\ handlers[h].pc = "idle"
  /\ LET pathname == request.path
         clientIP == getClientIP(request)
         limitedPath == SkipsI18n(pathname) /\ IsRateLimited(pathname)
         rl == IF limitedPath
                 THEN ApiRateLimitBlock(apiRateLimit, SECURITY_CONFIG,
                                        clientIP, now)
                 ELSE [map |-> apiRateLimit, limited |-> FALSE]
         n == IF limitedPath THEN mwSeq[clientIP] + 1 ELSE 0
         \* line 33, lines 36-41, lines 51-80
         ran == <<"identity", "headers">>
                  \o (IF limitedPath THEN <<"rate">> ELSE <<>>)
         done(resp, stages) ==
           Served(Logged(request, stages), clientIP, now, limitedPath, n,
                  apiRateLimit[clientIP], rl.map[clientIP], resp)
         inFirstWindow == \/ mwSeq[clientIP] = 0
                          \/ now < mwFirstAt[clientIP]
                                     + SECURITY_CONFIG.RATE_LIMIT_WINDOW
     IN  /\ apiRateLimit' = rl.map
         /\ mwCount' = mwCount + 1
         /\ mwAdmitted' = IF limitedPath /\ ~rl.limited /\ inFirstWindow
                            THEN [mwAdmitted EXCEPT ![clientIP] = @ + 1]
                            ELSE mwAdmitted
         /\ mwSeq' = IF limitedPath
                       THEN [mwSeq EXCEPT ![clientIP] = @ + 1] ELSE mwSeq
         /\ mwFirstAt' = IF limitedPath /\ mwSeq[clientIP] = 0
                           THEN [mwFirstAt EXCEPT ![clientIP] = now]
                           ELSE mwFirstAt
         /\ IF ~SkipsI18n(pathname)
              THEN /\ mwLast' = done(IntlResponse, ran \o <<"forward">>)
                   /\ UNCHANGED <<handlers, routed>>
            ELSE IF rl.limited
              THEN /\ mwLast' = done(RateLimitResponse, ran)
                   /\ UNCHANGED <<handlers, routed>>
            ELSE IF IsProtected(pathname)
              THEN /\ handlers' = [handlers EXCEPT ![h] =
                         [pc |-> "getToken", req |-> Logged(request, ran)]]
                   /\ UNCHANGED <<mwLast, routed>>
            ELSE IF pathname = ApiUpload
              THEN /\ mwLast' = done(NextResponseNext, ran)
                   /\ routed' = Append(routed, Logged(request, ran).route)
                   /\ UNCHANGED handlers
            ELSE /\ mwLast' = done(NextResponseNext, ran \o <<"forward">>)
                 /\ UNCHANGED <<handlers, routed>>
  /\ UNCHANGED <<clockVars, rlVars, csrfVars>>

\* A request whose pathname config.matcher excludes: the middleware is not
\* called.
NotMatched(request) ==
  /\ ~Matcher(request.path)
  /\ mwCount' = mwCount + 1
  /\ mwLast' = Served(request, "", now, FALSE, 0, NoEntry, NoEntry,
                      DirectResponse)
  /\ UNCHANGED <<clockVars, rlVars, apiRateLimit, handlers, mwSeq, mwFirstAt,
                 mwAdmitted, routed, csrfVars>>

\* The middleware from the resolution of await getToken to its return.
MiddlewareResume(h) ==
  /\ handlers[h].pc = "getToken"
  /\ LET request == handlers[h].req
         pathname == request.path
         token == getToken(request.cred)
         resp == IF token.isNull THEN LoginRedirect(pathname)
                 ELSE IF TokenExpired(token, now) THEN ExpiredRedirect(pathname)
                 ELSE NextResponseNext
         ran == IF resp = NextResponseNext THEN <<"auth", "forward">>
                ELSE <<"auth">>
     IN  mwLast' = Served(Logged(request, ran), getClientIP(request), now,
                          FALSE, 0, NoEntry, NoEntry, resp)
  /\ handlers' = [handlers EXCEPT ![h] = IdleHandler]
  /\ UNCHANGED <<clockVars, rlVars, apiRateLimit, mwCount, mwSeq, mwFirstAt,
                 mwAdmitted, routed, csrfVars>>

\* "await getToken(...)" when the promise is rejected because verification
\* threw on a malformed credential: the await throws, nothing catches it and
\* the function ends there.
MiddlewareReject(h) ==
  /\ handlers[h].pc = "getToken"
  /\ handlers[h].req.cred.kind = "bad"
  /\ LET request == handlers[h].req
     IN  mwLast' = Served(Logged(request, <<"auth">>), getClientIP(request),
                          now, FALSE, 0, NoEntry, NoEntry, UnhandledFailure)
  /\ handlers' = [handlers EXCEPT ![h] = IdleHandler]
  /\ UNCHANGED <<clockVars, rlVars, apiRateLimit, mwCount, mwSeq, mwFirstAt,
                 mwAdmitted, routed, csrfVars>>

(***************************************************************************)
(* lib/csrf.ts                                                             *)
(***************************************************************************)
Sessions == {"s1", "s2"}

NoStored == [present |-> FALSE, token |-> NoToken, expires |-> 0]

Stored(tok, exp) == [present |-> TRUE, token |-> tok, expires |-> exp]

\* cookies.get('next-auth.session-token')?.value ||
\* cookies.get('__Secure-next-auth.session-token')?.value
SessionTokenOf(request) ==
  IF request.plain # "" THEN request.plain ELSE request.secure

\* Faulty variant: the expiry test written the wrong way round
StoredExpiredInverted(storedToken, t) == t < storedToken.expires

\* "if (Date.now() > storedToken.expires)"
StoredExpired(storedToken, t) == t > storedToken.expires

\* Faulty variant: any presented value passes for a session that has a token
TokenDiffersNever(storedToken, token) == FALSE

\* "storedToken.token !== token"
TokenDiffers(storedToken, token) == storedToken.token # token

\* Faulty variant: a token that validates is used up
validateCSRFTokenOnce(table, request, token, t) ==
  LET sessionToken == SessionTokenOf(request)
      storedToken == table[sessionToken]
  IN  IF sessionToken = ""
        THEN [table |-> table, result |-> FALSE]
      ELSE IF ~storedToken.present \/ TokenDiffers(storedToken, token)
        THEN [table |-> table, result |-> FALSE]
      ELSE [table |-> [table EXCEPT ![sessionToken] = NoStored],
            result |-> ~StoredExpired(storedToken, t)]

\* validateCSRFToken(request, token) at time t: the value returned and the
\* token table afterwards.
validateCSRFToken(table, request, token, t) ==
  LET sessionToken == SessionTokenOf(request)
      storedToken == table[sessionToken]
  IN  IF sessionToken = ""
        THEN [table |-> table, result |-> FALSE]
      ELSE IF ~storedToken.present \/ TokenDiffers(storedToken, token)
        THEN [table |-> table, result |-> FALSE]
      ELSE IF StoredExpired(storedToken, t)
        THEN [table |-> [table EXCEPT ![sessionToken] = NoStored],
              result |-> FALSE]
      ELSE [table |-> table, result |-> TRUE]

\* "const expires = Date.now() + (24 * 60 * 60 * 1000)"
ExpiresFor(t) == t + CSRF_LIFETIME

\* Faulty variant: a token already stored for the session is kept
StoreTokenIfAbsent(table, sessionToken, token, expires) ==
  IF table[sessionToken].present THEN table
  ELSE [table EXCEPT ![sessionToken] = Stored(token, expires)]

\* csrfTokens.set(sessionToken, { token, expires })
StoreToken(table, sessionToken, token, expires) ==
  [table EXCEPT ![sessionToken] = Stored(token, expires)]

\* setCSRFToken(sessionToken) at time t, token being the value
\* generateCSRFToken returned: the table after the set and the clean-up loop.
setCSRFToken(table, sessionToken, token, t) ==
  LET set == StoreToken(table, sessionToken, token, ExpiresFor(t))
  IN  [k \in DOMAIN set |->
         IF set[k].present /\ StoredExpired(set[k], t) THEN NoStored
         ELSE set[k]]

\* Faulty variant: the test for a missing header left out
HeaderMissingNever(csrfToken) == FALSE

\* "if (!csrfToken)": headers.get gave null or the empty string
HeaderMissing(csrfToken) == csrfToken = NoToken

CsrfHandlers == {1, 2}

IdleCsrfHandler == [pc |-> "idle", req |-> NoCsrfReq, isValid |-> FALSE]

\* Responses of the wrapper and of the token endpoint.  kind "handler" is the
\* wrapped handler having been invoked with the request.
CsrfResponse(kind, status, success, error, csrfToken, req) ==
  [kind |-> kind, status |-> status, success |-> success, error |-> error,
   csrfToken |-> csrfToken, req |-> req]

NoCsrfResponse == CsrfResponse("none", 0, FALSE, "", NoToken, NoCsrfReq)

\* The function returned by withCSRFProtection(handler), from its entry to
\* "await validateCSRFToken(...)" or to its return.  validateCSRFToken has no
\* await of its own, so its body runs before the wrapper is suspended.
WrapperEnter(h, request) ==
  /\ csrfHandlers[h].pc = "idle"
  /\ csrfCount' = csrfCount + 1
  /\ IF request.method = "GET"
       THEN /\ csrfLast' = CsrfResponse("handler", 200, TRUE, "", NoToken,
                                         AddLog(request, <<"forward">>))
            /\ UNCHANGED <<csrfTokens, csrfHandlers>>
     ELSE IF HeaderMissing(request.header)
       THEN /\ csrfLast' = CsrfResponse("json", 403, FALSE,
                                         "CSRF token missing", NoToken,
                                         AddLog(request, <<"csrf">>))
            /\ UNCHANGED <<csrfTokens, csrfHandlers>>
     ELSE LET v == validateCSRFToken(csrfTokens, request, request.header, now)
          IN  /\ csrfTokens' = v.table
              /\ csrfHandlers' = [csrfHandlers EXCEPT ![h] =
                   [pc |-> "validated", req |-> AddLog(request, <<"csrf">>),
                    isValid |-> v.result]]
              /\ UNCHANGED csrfLast
  /\ UNCHANGED <<serverVars, rlVars, mwVars, tokenCtr, csrfIssued,
                 csrfIssuedAt>>

\* A request handed to the wrapped handler on its own.
WrapperStart(h, request) ==
  /\ WrapperEnter(h, request)
  /\ UNCHANGED <<routed, clients>>

\* The wrapper from the resolution of its await to its return.
WrapperResume(h) ==
  /\ csrfHandlers[h].pc = "validated"
  /\ csrfLast' =
       IF ~csrfHandlers[h].isValid
         THEN CsrfResponse("json", 403, FALSE, "Invalid CSRF token", NoToken,
                           csrfHandlers[h].req)
         ELSE CsrfResponse("handler", 200, TRUE, "", NoToken,
                           AddLog(csrfHandlers[h].req, <<"forward">>))
  /\ csrfHandlers' = [csrfHandlers EXCEPT ![h] = IdleCsrfHandler]
  /\ UNCHANGED <<clockVars, rlVars, mwVars, routed, csrfTokens, tokenCtr,
                 csrfCount, csrfIssued, csrfIssuedAt>>

\* GET of the upload route: the CSRF token retrieval endpoint.
UploadGET(request) ==
  LET sessionToken == SessionTokenOf(request)
      token == tokenCtr + 1
  IN  /\ IF sessionToken = ""
           THEN /\ csrfLast' = CsrfResponse("json", 401, FALSE,
                                             "Not authenticated", NoToken,
                                             AddLog(request, <<"forward">>))
                /\ UNCHANGED <<csrfTokens, tokenCtr, csrfIssued, csrfIssuedAt>>
           ELSE /\ csrfTokens' = setCSRFToken(csrfTokens, sessionToken, token,
                                              now)
                /\ tokenCtr' = token
                /\ csrfIssued' = [csrfIssued EXCEPT ![sessionToken] =
                                    @ \cup {token}]
                /\ csrfIssuedAt' = [csrfIssuedAt EXCEPT ![sessionToken] = now]
                /\ csrfLast' = CsrfResponse("json", 200, TRUE, "", token,
                                             AddLog(request, <<"forward">>))
      /\ UNCHANGED <<serverVars, rlVars, mwVars, csrfHandlers, csrfCount>>

\* A request handed to the token endpoint on its own.
TokenEndpoint(request) ==
  /\ UploadGET(request)
  /\ UNCHANGED <<routed, clients>>

\* The route /api/upload takes the oldest request the middleware passed on:
\* its GET export is the token endpoint, its POST export the wrapped handler.
RouteInvoke(h) ==
  /\ routed # <<>>
  /\ routed' = Tail(routed)
  /\ UNCHANGED clients
  /\ IF Head(routed).method = "GET"
       THEN UploadGET(Head(routed))
       ELSE WrapperEnter(h, Head(routed))

(***************************************************************************)
(* lib/csrf-client.ts                                                      *)
(***************************************************************************)
\* The pages that have loaded the module, each with its own csrfToken
\* variable; they belong to one browser and so send the same session cookie.
Clients == {"tab1", "tab2"}

ClientSession == "s1"

\* "let csrfToken: string | null = null", no call of fetchWithCSRF running
IdleClient == [pc |-> "idle", csrfToken |-> NoToken, data |-> NoToken]

InitClients == clients = [c \in Clients |-> IdleClient]

\* "if (!csrfToken)"
NotCached(csrfToken) == csrfToken = NoToken

\* fetchWithCSRF(url, options) from its entry to the first await: of
\* fetch('/api/upload') in getCSRFToken when no token is cached, the route
\* answering while the client waits, and of getCSRFToken() itself otherwise.
ClientGetToken(c) ==
  /\ clients[c].pc = "idle"
  /\ IF NotCached(clients[c].csrfToken)
       THEN /\ UploadGET(CsrfReq("GET", ClientSession, "", NoToken))
            /\ clients' = [clients EXCEPT ![c].pc = "fetching",
                                          ![c].data = csrfLast'.csrfToken]
       ELSE /\ clients' = [clients EXCEPT ![c].pc = "ready"]
            /\ UNCHANGED <<serverVars, rlVars, mwVars, csrfVars>>
  /\ UNCHANGED routed

\* "const data = await response.json(); csrfToken = data.csrfToken"
ClientTokenReceived(c) ==
  /\ clients[c].pc = "fetching"
  /\ clients' = [clients EXCEPT ![c].pc = "ready",
                                ![c].csrfToken = clients[c].data,
                                ![c].data = NoToken]
  /\ UNCHANGED <<serverVars, rlVars, mwVars, routed, csrfVars>>

\* "return csrfToken" and the rest of fetchWithCSRF: the request goes out
\* with the cached value in X-CSRF-Token and reaches the wrapped handler.
ClientSend(c, h) ==
  /\ clients[c].pc = "ready"
  /\ WrapperEnter(h, CsrfReq("POST", ClientSession, "",
                             clients[c].csrfToken))
  /\ clients' = [clients EXCEPT ![c].pc = "idle"]
  /\ UNCHANGED routed

(***************************************************************************)
(* The clock                                                               *)
(***************************************************************************)
Tick(d) ==
  /\ now' = now + d
  /\ ticks' = ticks + 1
  /\ UNCHANGED <<clients, SECURITY_CONFIG, envVars, redisVars, rlVars, mwVars, routed,
                 csrfVars>>

(***************************************************************************)
(* lib/redis-rate-limit.ts: redisRateLimit                                 *)
(*                                                                         *)
(* The Redis server keeps, per key, a value and the time at which the key  *)
(* expires; a key whose time has passed is gone.  INCR of a missing key    *)
(* sets it to 1, EXPIRE sets the expiry to the given number of seconds     *)
(* from now, TTL is the number of seconds left (-2 for a missing key).     *)
(***************************************************************************)
NoRedisEntry == [present |-> FALSE, count |-> 0, expireAt |-> 0]

RedisLive(entry, t) == entry.present /\ ~(t > entry.expireAt)

\* "Math.ceil(windowMs / 1000)"
WindowSeconds(windowMs) == (windowMs + 999) \div 1000

\* Faulty variant: the expiry is set only when the key is created
PipelineExpireOnce(entry, window, t) ==
  IF RedisLive(entry, t)
    THEN [entry EXCEPT !.count = @ + 1]
    ELSE [present |-> TRUE, count |-> 1, expireAt |-> t + window * 1000]

\* "pipeline.incr(key); pipeline.expire(key, window)" executed at time t
Pipeline(entry, window, t) ==
  [present |-> TRUE,
   count |-> IF RedisLive(entry, t) THEN entry.count + 1 ELSE 1,
   expireAt |-> t + window * 1000]

\* redis.ttl(key) at time t
Ttl(entry, t) ==
  IF ~RedisLive(entry, t) THEN -2
  ELSE (entry.expireAt - t + 500) \div 1000

RedisResult(success, remaining, hasResetTime, resetTime) ==
  [success |-> success, remaining |-> remaining,
   hasResetTime |-> hasResetTime, resetTime |-> resetTime]

\* Faulty variant: a failure of the store rejects the request
FailClosedResult(maxRequests) == RedisResult(FALSE, 0, FALSE, 0)

\* "catch (error) { ... return { success: true, remaining: maxRequests - 1 } }"
FailOpenResult(maxRequests) == RedisResult(TRUE, maxRequests - 1, FALSE, 0)

IdleRedisCall ==
  [pc |-> "idle", identifier |-> "", maxRequests |-> 0, count |-> 0,
   firstAt |-> 0, prevAt |-> 0, n |-> 0, execAt |-> 0]

NoRedisCall ==
  [called |-> FALSE, key |-> "", at |-> 0, execAt |-> 0, limit |-> 0,
   failed |-> FALSE, firstAt |-> 0, prevAt |-> 0, n |-> 0,
   result |-> RedisResult(FALSE, 0, FALSE, 0)]

NotSeen == [calls |-> 0, n |-> 0, firstAt |-> 0, lastAt |-> 0]

\* What a finished call leaves in redisLast: at is the time of the return,
\* execAt that of the call's INCR, firstAt and prevAt are the times of the
\* first INCR of the key and of the one before this call's, n is the number
\* of the call's INCR among those of the key.
RedisReturn(call, failed, result) ==
  [called |-> TRUE, key |-> call.identifier, at |-> now,
   execAt |-> call.execAt, limit |-> call.maxRequests, failed |-> failed,
   firstAt |-> call.firstAt, prevAt |-> call.prevAt, n |-> call.n,
   result |-> result]

\* rateLimit(identifier, maxRequests) of the guide calls redisRateLimit with
\* SECURITY_CONFIG.RATE_LIMIT_WINDOW; redisRateLimit from its entry to
\* "await pipeline.exec()".
RedisStart(identifier) ==
  /\ redisCall.pc = "idle"
  /\ redisCall' = [IdleRedisCall EXCEPT
                     !.pc = "exec", !.identifier = identifier,
                     !.maxRequests = rlLimit[identifier]]
  /\ redisSeen' = [redisSeen EXCEPT ![identifier].calls = @ + 1]
  /\ UNCHANGED <<clients, now, ticks, SECURITY_CONFIG, envVars, redisStore, redisLast,
                 rlVars, mwVars, routed, csrfVars>>

\* The server executes the pipeline and the call goes on to
\* "await redis.ttl(key)" or to its return.
RedisExec ==
  /\ redisCall.pc = "exec"
  /\ LET k == redisCall.identifier
         window == WindowSeconds(SECURITY_CONFIG.RATE_LIMIT_WINDOW)
         entry == Pipeline(redisStore[k], window, now)
         count == entry.count
         seen == redisSeen[k]
         call == [redisCall EXCEPT
                    !.count = count,
                    !.firstAt = IF seen.n = 0 THEN now ELSE seen.firstAt,
                    !.prevAt = seen.lastAt, !.n = seen.n + 1,
                    !.execAt = now]
     IN  /\ redisStore' = [redisStore EXCEPT ![k] = entry]
         /\ redisSeen' = [redisSeen EXCEPT ![k] =
              [calls |-> seen.calls, n |-> seen.n + 1,
               firstAt |-> IF seen.n = 0 THEN now ELSE seen.firstAt,
               lastAt |-> now]]
         /\ IF count > redisCall.maxRequests
              THEN /\ redisCall' = [call EXCEPT !.pc = "ttl"]
                   /\ UNCHANGED redisLast
              ELSE /\ redisCall' = IdleRedisCall
                   /\ redisLast' =
                        RedisReturn(call, FALSE,
                          RedisResult(TRUE, redisCall.maxRequests - count,
                                      FALSE, 0))
  /\ UNCHANGED <<clients, now, ticks, SECURITY_CONFIG, envVars, rlVars, mwVars, routed,
                 csrfVars>>

\* The server answers TTL and the call returns the rejection.
RedisTtl ==
  /\ redisCall.pc = "ttl"
  /\ LET ttl == Ttl(redisStore[redisCall.identifier], now)
     IN  redisLast' = RedisReturn(redisCall, FALSE,
                        RedisResult(FALSE, 0, TRUE, now + ttl * 1000))
  /\ redisCall' = IdleRedisCall
  /\ UNCHANGED <<clients, now, ticks, SECURITY_CONFIG, envVars, redisStore, redisSeen,
                 rlVars, mwVars, routed, csrfVars>>

\* The awaited Redis call throws (the store is down): the catch block returns.
RedisFail ==
  /\ redisCall.pc \in {"exec", "ttl"}
  /\ redisLast' = RedisReturn(redisCall, TRUE,
                              FailOpenResult(redisCall.maxRequests))
  /\ redisCall' = IdleRedisCall
  /\ UNCHANGED <<clients, now, ticks, SECURITY_CONFIG, envVars, redisStore, redisSeen,
                 rlVars, mwVars, routed, csrfVars>>

InitRedis ==
  /\ redisStore = [k \in Identifiers |-> NoRedisEntry]
  /\ redisCall = IdleRedisCall
  /\ redisSeen = [k \in Identifiers |-> NotSeen]
  /\ redisLast = NoRedisCall

(***************************************************************************)
(* Start-up: the validation at the top of middleware.ts                    *)
(***************************************************************************)
NoValidation == [valid |-> FALSE, errors |-> <<>>]

EmptyConsole == [error |-> <<>>, warn |-> <<>>, log |-> <<>>]

\* Faulty variant: an invalid configuration never stops the start-up
AbortsStartupNever(validation, env) == FALSE

\* "if (!validation.valid) { ... if (NODE_ENV === 'production') throw ... }"
AbortsStartup(validation, env) ==
  ~validation.valid /\ env.NODE_ENV = "production"

\* The module is evaluated: "const envValidation =
\* validateEnvironmentVariables(); if (!envValidation.valid) { ... }".  A throw
\* at the top level leaves the module without its exports.
ModuleLoad ==
  /\ boot = "loading"
  /\ LET validation == validateEnvironmentVariables(processEnv)
     IN  /\ envValidation' = validation
         /\ console' =
              IF validation.valid THEN console
              ELSE [console EXCEPT !.error =
                      @ \o <<"Environment validation failed:">>
                        \o validation.errors]
         /\ boot' = IF AbortsStartup(validation, processEnv) THEN "aborted"
                    ELSE "serving"
  /\ UNCHANGED <<clients, now, ticks, SECURITY_CONFIG, processEnv, redisVars, rlVars, mwVars,
                 routed, csrfVars>>

\* The module is evaluated with the start-up of the guide, section 4.2:
\* "validateOnStartup();" of lib/env-validator.ts.
validateOnStartup ==
  /\ boot = "loading"
  /\ LET validation == validateEnvironmentVariablesEnhanced(processEnv)
         aborts == AbortsStartup(validation, processEnv)
     IN  /\ envValidation' = validation
         /\ console' =
              [error |-> IF validation.valid THEN console.error
                         ELSE console.error
                              \o <<"Environment validation failed:">>
                              \o validation.errors,
               warn |-> IF aborts \/ Len(validation.warnings) = 0
                          THEN console.warn
                        ELSE console.warn
                             \o <<"Environment validation warnings:">>
                             \o validation.warnings,
               log |-> IF validation.valid
                         THEN console.log
                              \o <<"Environment validation passed">>
                       ELSE console.log]
         /\ boot' = IF aborts THEN "aborted" ELSE "serving"
  /\ UNCHANGED <<clients, now, ticks, SECURITY_CONFIG, processEnv, redisVars, rlVars, mwVars,
                 routed, csrfVars>>

(***************************************************************************)
(* Specifications                                                          *)
(***************************************************************************)
Sum(f) ==
  LET RECURSIVE SumOver(_)
      SumOver(S) == IF S = {} THEN 0
                    ELSE LET x == CHOOSE y \in S : TRUE
                         IN  f[x] + SumOver(S \ {x})
  IN  SumOver(DOMAIN f)

\* A well-formed environment of a development machine
DevelopmentEnv ==
  [NODE_ENV |-> "development",
   DATABASE_URL |-> <<"postgresql://", "localhost", "/namngam">>,
   NEXTAUTH_URL |-> <<"http://", "namngam.com">>,
   NEXTAUTH_SECRET |-> Random32, REDIS_URL |-> Unset,
   GOOGLE_ANALYTICS_ID |-> Unset, FACEBOOK_PIXEL_ID |-> Unset]

\* The module has been loaded under DevelopmentEnv.
InitLoaded ==
  /\ processEnv = DevelopmentEnv
  /\ boot = "serving"
  /\ envValidation = validateEnvironmentVariables(DevelopmentEnv)
  /\ console = EmptyConsole

InitRL ==
  /\ rateLimitStore = EmptyMap(Identifiers)
  /\ rlSeq = [k \in Identifiers |-> 0]
  /\ rlFirstAt = [k \in Identifiers |-> 0]
  /\ rlLast = NoCall

InitMW ==
  /\ apiRateLimit = EmptyMap(ClientIPs)
  /\ handlers = [h \in Handlers |-> IdleHandler]
  /\ mwCount = 0
  /\ mwSeq = [k \in ClientIPs |-> 0]
  /\ mwFirstAt = [k \in ClientIPs |-> 0]
  /\ mwAdmitted = [k \in ClientIPs |-> 0]
  /\ mwLast = NoServed
  /\ routed = <<>>

InitCSRF ==
  /\ csrfTokens = [s \in Sessions |-> NoStored]
  /\ tokenCtr = 0
  /\ csrfHandlers = [h \in CsrfHandlers |-> IdleCsrfHandler]
  /\ csrfCount = 0
  /\ csrfIssued = [s \in Sessions |-> {}]
  /\ csrfIssuedAt = [s \in Sessions |-> 0]
  /\ csrfLast = NoCsrfResponse

RateSteps == {1, RATE_LIMIT_WINDOW}

\* The idle handler slot a new invocation takes (the slots are anonymous).
FreeHandler == CHOOSE h \in Handlers :
                 /\ handlers[h].pc = "idle"
                 /\ \A g \in Handlers : handlers[g].pc = "idle" => h <= g

\* --- the two in-memory rate limiters: rateLimit of lib/security.ts, and
\* --- API requests through the middleware ---------------------------------
\* "upload:A" is checked with the default maxRequests, "login:A" with an
\* explicit one.
InitRate ==
  /\ now = 0 /\ ticks = 0
  /\ InitLoaded
  /\ SECURITY_CONFIG \in ScaledConfigs
  /\ rlLimit \in {[k \in Identifiers |->
                     IF k = "login:A" THEN m
                     ELSE SECURITY_CONFIG.RATE_LIMIT_MAX_REQUESTS] :
                   m \in MaxRequestsArgs}
  /\ InitRL
  /\ InitMW
  /\ InitCSRF
  /\ InitRedis
  /\ InitClients

ApiRequests ==
  {Req(ApiProducts, f, "", "B", NoCred, PlainGet) :
     f \in {NoHeader, <<" A", "B">>}}

NextRate ==
  \/ \E d \in RateSteps : ticks < MwMaxTicks /\ Tick(d)
  \/ \E k \in Identifiers :
       /\ Sum(rlSeq) + mwCount < MaxChecks
       /\ RateLimitCall(k)
  \/ \E r \in ApiRequests :
       /\ Sum(rlSeq) + mwCount < MaxChecks
       /\ MiddlewareStart(FreeHandler, r)

SpecRate == InitRate /\ [][NextRate]_vars

\* --- the middleware end to end with the configuration of the source ------
InitE2E ==
  /\ now = 0 /\ ticks = 0
  /\ InitLoaded
  /\ SECURITY_CONFIG = SourceConfig
  /\ rlLimit = [k \in Identifiers |-> 0]
  /\ InitRL
  /\ InitMW
  /\ InitCSRF
  /\ InitRedis
  /\ InitClients

NextE2E ==
  \/ \E d \in RateSteps : ticks < E2EMaxTicks /\ Tick(d)
  \/ \E r \in ApiRequests :
       /\ mwSeq[getClientIP(r)] < RATE_LIMIT_MAX_REQUESTS + E2EExtra
       /\ r.forwarded # NoHeader
       /\ MiddlewareStart(FreeHandler, r)

SpecE2E == InitE2E /\ [][NextE2E]_vars

\* --- the middleware with every route class and credential ---------------
MwRequests ==
  {Req(p, NoHeader, "", "B", NoCred, PlainGet) :
     p \in {ApiProducts, ApiPublicSettings, AdminLogin, PublicAbout,
            UploadsDir, NextStatic, AdminExport, ApiProductFile}}
  \cup {Req(AdminProducts, NoHeader, "", "B", c, PlainGet) : c \in Creds}

InitMiddleware ==
  /\ now = 0 /\ ticks = 0
  /\ InitLoaded
  /\ SECURITY_CONFIG \in ScaledConfigs
  /\ rlLimit = [k \in Identifiers |-> 0]
  /\ InitRL
  /\ InitMW
  /\ InitCSRF
  /\ InitRedis
  /\ InitClients

NextMiddleware ==
  \/ \E d \in RateSteps : ticks < MwMaxTicks /\ Tick(d)
  \/ \E r \in MwRequests :
       /\ mwCount < MaxRequests
       /\ \E h \in Handlers : handlers[h].pc = "idle"
       /\ MiddlewareStart(FreeHandler, r)
  \/ \E r \in MwRequests :
       /\ mwCount < MaxRequests
       /\ NotMatched(r)
  \/ \E h \in Handlers : MiddlewareResume(h)

SpecMiddleware == InitMiddleware /\ [][NextMiddleware]_vars

\* --- the middleware when session-token verification may throw -------------
MaxFaultRequests == 3

FaultRequests ==
  {Req(p, NoHeader, "", "B", NoCred, PlainGet) : p \in {ApiProducts, PublicAbout}}
  \cup {Req(AdminProducts, NoHeader, "", "B", c, PlainGet) : c \in Creds}

NextFault ==
  \/ \E r \in FaultRequests :
       /\ mwCount < MaxFaultRequests
       /\ \E h \in Handlers : handlers[h].pc = "idle"
       /\ MiddlewareStart(FreeHandler, r)
  \/ \E h \in Handlers : MiddlewareResume(h)
  \/ \E h \in Handlers : MiddlewareReject(h)

SpecFault == InitMiddleware /\ [][NextFault]_vars

\* --- the two in-memory limiters, each checked under two keys --------------
MaxKeyChecks == 3
KeysMaxTicks == 2

NextKeys ==
  \/ \E d \in RateSteps : ticks < KeysMaxTicks /\ Tick(d)
  \/ \E k \in Identifiers :
       /\ Sum(rlSeq) + mwCount < MaxKeyChecks
       /\ RateLimitCall(k)
  \/ \E r \in ApiRequests :
       /\ Sum(rlSeq) + mwCount < MaxKeyChecks
       /\ MiddlewareStart(FreeHandler, r)

SpecKeys == InitRate /\ [][NextKeys]_vars

\* --- rateLimit and the block of the middleware side by side: each check is
\* --- made by rateLimit first and then, at the same time and under the key
\* --- paired with rateLimit's, by a request through the middleware --------
MaxPairChecks == 4
PairMaxTicks == 2

PairedIP(identifier) == IF identifier = "login:A" THEN "A" ELSE "B"

Balanced == Sum(rlSeq) = mwCount

InitPair ==
  /\ now = 0 /\ ticks = 0
  /\ InitLoaded
  /\ SECURITY_CONFIG \in ScaledConfigs
  /\ rlLimit = [k \in Identifiers |-> SECURITY_CONFIG.RATE_LIMIT_MAX_REQUESTS]
  /\ InitRL
  /\ InitMW
  /\ InitCSRF
  /\ InitRedis
  /\ InitClients

NextPair ==
  \/ \E d \in RateSteps : ticks < PairMaxTicks /\ Balanced /\ Tick(d)
  \/ \E k \in Identifiers :
       /\ Balanced
       /\ mwCount < MaxPairChecks
       /\ RateLimitCall(k)
  \/ \E r \in ApiRequests :
       /\ ~Balanced
       /\ getClientIP(r) = PairedIP(rlLast.key)
       /\ MiddlewareStart(FreeHandler, r)

SpecPair == InitPair /\ [][NextPair]_vars

\* --- the Redis-backed limiter ---------------------------------------------
MaxRedisCalls == 3
RedisMaxTicks == 2

\* Clock steps that put a request shortly before the end of a window and the
\* next one shortly after it
RedisSteps == {2, RATE_LIMIT_WINDOW - 1}

RedisCalls == redisSeen["login:A"].calls + redisSeen["upload:A"].calls

NextRedis ==
  \/ \E d \in RedisSteps : ticks < RedisMaxTicks /\ Tick(d)
  \/ \E k \in Identifiers :
       /\ RedisCalls < MaxRedisCalls
       /\ RedisStart(k)
  \/ RedisExec
  \/ RedisTtl
  \/ RedisFail

SpecRedis == InitRate /\ [][NextRedis]_vars

\* --- the middleware under every combination of address sources ------------
MaxIdentityRequests == 2

\* x-forwarded-for as the list of its comma-separated entries: absent or
\* empty, " A,B", "B", " " and ",A"
ForwardedHeaders == {NoHeader, <<" A", "B">>, <<"B">>, <<" ">>, <<"", "A">>}

IdentityRequests ==
  {Req(p, f, r, i, NoCred, PlainGet) :
     p \in {ApiProducts, PublicAbout}, f \in ForwardedHeaders,
     r \in {"", "B"}, i \in {"", "A"}}

NextIdentity ==
  \E r \in IdentityRequests :
    /\ mwCount < MaxIdentityRequests
    /\ \E h \in Handlers : handlers[h].pc = "idle"
    /\ MiddlewareStart(FreeHandler, r)

SpecIdentity == InitMiddleware /\ [][NextIdentity]_vars

\* --- start-up under every environment, then the middleware ----------------
MaxConfigRequests == 1

ConfigRequests ==
  {Req(ApiProducts, NoHeader, "", "B", NoCred, PlainGet),
   Req(AdminProducts, NoHeader, "", "B", NoCred, PlainGet)}

InitConfig ==
  /\ now = 0 /\ ticks = 0
  /\ processEnv \in Envs
  /\ boot = "loading"
  /\ envValidation = NoValidation
  /\ console = EmptyConsole
  /\ SECURITY_CONFIG = SourceConfig
  /\ rlLimit = [k \in Identifiers |-> 0]
  /\ InitRL
  /\ InitMW
  /\ InitCSRF
  /\ InitRedis
  /\ InitClients

NextConfig ==
  \/ ModuleLoad
  \/ validateOnStartup
  \/ \E r \in ConfigRequests :
       /\ mwCount < MaxConfigRequests
       /\ \E h \in Handlers : handlers[h].pc = "idle"
       /\ MiddlewareStart(FreeHandler, r)
  \/ \E h \in Handlers : MiddlewareResume(h)

SpecConfig == InitConfig /\ [][NextConfig]_vars

\* --- the CSRF token manager --------------------------------------------
CsrfSteps == {1, CSRF_LIFETIME}

Cookies == {<<"", "">>, <<"s1", "">>, <<"", "s2">>, <<"s1", "s2">>}

\* A GET, a HEAD, an OPTIONS and a POST without the token header, and POSTs
\* that present a wrong value or any token issued so far under each
\* combination of cookies.
WrappedRequests ==
  {CsrfReq(m, "s1", "", NoToken) : m \in {"GET", "HEAD", "OPTIONS", "POST"}}
  \cup {CsrfReq("POST", c[1], c[2], t) :
          c \in Cookies, t \in {WrongToken} \cup (1..tokenCtr)}

EndpointRequests ==
  {CsrfReq("GET", c[1], c[2], NoToken) : c \in Cookies \ {<<"s1", "s2">>}}

FreeCsrfHandler == CHOOSE h \in CsrfHandlers :
                     /\ csrfHandlers[h].pc = "idle"
                     /\ \A g \in CsrfHandlers :
                          csrfHandlers[g].pc = "idle" => h <= g

InitCsrfSpec ==
  /\ now = 0 /\ ticks = 0
  /\ InitLoaded
  /\ SECURITY_CONFIG = SourceConfig
  /\ rlLimit = [k \in Identifiers |-> 0]
  /\ InitRL
  /\ InitMW
  /\ InitCSRF
  /\ InitRedis
  /\ InitClients

NextCsrf ==
  \/ \E d \in CsrfSteps : ticks < CsrfMaxTicks /\ Tick(d)
  \/ \E r \in EndpointRequests :
       /\ tokenCtr + csrfCount < MaxCsrfOps
       /\ TokenEndpoint(r)
  \/ \E r \in WrappedRequests :
       /\ tokenCtr + csrfCount < MaxCsrfOps
       /\ \E h \in CsrfHandlers : csrfHandlers[h].pc = "idle"
       /\ WrapperStart(FreeCsrfHandler, r)
  \/ \E h \in CsrfHandlers : WrapperResume(h)

SpecCsrf == InitCsrfSpec /\ [][NextCsrf]_vars

\* --- two pages of one session calling fetchWithCSRF --------------------
MaxClientCalls == 3   \* calls of fetchWithCSRF per behaviour
ClientMaxTicks == 1

ClientCalls == csrfCount + Cardinality({c \in Clients : clients[c].pc # "idle"})

NextClients ==
  \/ \E d \in CsrfSteps : ticks < ClientMaxTicks /\ Tick(d)
  \/ \E c \in Clients :
       /\ ClientCalls < MaxClientCalls
       /\ ClientGetToken(c)
  \/ \E c \in Clients : ClientTokenReceived(c)
  \/ \E c \in Clients :
       /\ \E h \in CsrfHandlers : csrfHandlers[h].pc = "idle"
       /\ ClientSend(c, FreeCsrfHandler)
  \/ \E h \in CsrfHandlers : WrapperResume(h)

SpecClients == InitCsrfSpec /\ [][NextClients]_vars

\* --- the middleware followed by the route /api/upload --------------------
\* The session cookie of a request is seen by the middleware as a JWT and by
\* the route as the key of the token table.
LiveCred == SignedCred(2 * (RATE_LIMIT_WINDOW \div 1000))

PipeRequests ==
  {Req(ApiUpload, NoHeader, "", "B", LiveCred,
       CsrfReq("GET", "s1", "", NoToken))}
  \cup {Req(ApiUpload, NoHeader, "", "B", LiveCred,
             CsrfReq("POST", "s1", "", t)) :
          t \in {NoToken, WrongToken} \cup (1..tokenCtr)}
  \cup {Req(AdminProducts, NoHeader, "", "B", c, PlainGet) :
          c \in {NoCred, LiveCred}}

InitPipeline ==
  /\ now = 0 /\ ticks = 0
  /\ InitLoaded
  /\ SECURITY_CONFIG = [SourceConfig EXCEPT
                          !.RATE_LIMIT_MAX_REQUESTS = PipeLimit]
  /\ rlLimit = [k \in Identifiers |-> 0]
  /\ InitRL
  /\ InitMW
  /\ InitCSRF
  /\ InitRedis
  /\ InitClients

NextPipeline ==
  \/ \E d \in RateSteps : ticks < PipeMaxTicks /\ Tick(d)
  \/ \E r \in PipeRequests :
       /\ mwCount < MaxPipeRequests
       /\ \E h \in Handlers : handlers[h].pc = "idle"
       /\ MiddlewareStart(FreeHandler, r)
  \/ \E h \in Handlers : MiddlewareResume(h)
  \/ /\ \E h \in CsrfHandlers : csrfHandlers[h].pc = "idle"
     /\ RouteInvoke(FreeCsrfHandler)
  \/ \E h \in CsrfHandlers : WrapperResume(h)

SpecPipeline == InitPipeline /\ [][NextPipeline]_vars

(***************************************************************************)
(* Properties of the rate limiters                                         *)
(***************************************************************************)
\* The last rateLimit call was made inside the window that the first call
\* for its key opened.
InFirstWindow ==
  /\ rlLast.called
  /\ rlLast.at < rlFirstAt[rlLast.key] + SECURITY_CONFIG.RATE_LIMIT_WINDOW

\* C1: starting with no window for a key, each of the first `limit` checks
\* inside one window is allowed and check number limit+1 returns
\* success = false with remaining = 0 (limit >= 1).
C1_FirstLimitThenRemainingZero ==
  (InFirstWindow /\ rlLast.limit >= 1) =>
     /\ rlLast.n <= rlLast.limit => rlLast.result.success
     /\ rlLast.n = rlLast.limit + 1 =>
          /\ ~rlLast.result.success
          /\ rlLast.result.hasRemaining
          /\ rlLast.result.remaining = 0

\* C7: a check made after the window length has elapsed, that is at a time
\* later than the stored resetTime = creation time + window length (the
\* instant now = resetTime itself is the subject of C8), starts a new window: it is allowed, also when the
\* old window was exhausted, and one request of the new window is used
\* (count 1, remaining = limit - 1); for rateLimit and for the middleware.
C7_NewWindowAfterExpiry ==
  /\ (rlLast.called /\ rlLast.pre.present
        /\ rlLast.at > rlLast.pre.resetTime) =>
       /\ rlLast.result.success
       /\ rlLast.result.hasRemaining
       /\ rlLast.result.remaining = rlLast.limit - 1
       /\ rlLast.post =
            Entry(1, rlLast.at + SECURITY_CONFIG.RATE_LIMIT_WINDOW)
  /\ (mwLast.served /\ mwLast.rateChecked /\ mwLast.pre.present
        /\ mwLast.decidedAt > mwLast.pre.resetTime) =>
       /\ mwLast.response = NextResponseNext
       /\ mwLast.post =
            Entry(1, mwLast.decidedAt + SECURITY_CONFIG.RATE_LIMIT_WINDOW)

\* Both limiters have just restarted an exhausted window.
C7_Witness ==
  /\ rlLast.called /\ rlLast.pre.present /\ rlLast.limit >= 1
  /\ rlLast.pre.count >= rlLast.limit
  /\ rlLast.at > rlLast.pre.resetTime
  /\ rlLast.result.success
  /\ mwLast.served /\ mwLast.rateChecked /\ mwLast.pre.present
  /\ mwLast.pre.count >= SECURITY_CONFIG.RATE_LIMIT_MAX_REQUESTS
  /\ mwLast.decidedAt > mwLast.pre.resetTime
  /\ mwLast.response = NextResponseNext

\* C8: a window is expired as soon as now >= resetTime, the instant
\* now = resetTime included: a check at or after resetTime replaces the
\* window with a fresh one.
C8_ExpiredAtResetTime ==
  /\ (rlLast.called /\ rlLast.pre.present
        /\ rlLast.at >= rlLast.pre.resetTime) =>
       rlLast.post = Entry(1, rlLast.at + SECURITY_CONFIG.RATE_LIMIT_WINDOW)
  /\ (mwLast.served /\ mwLast.rateChecked /\ mwLast.pre.present
        /\ mwLast.decidedAt >= mwLast.pre.resetTime) =>
       mwLast.post =
         Entry(1, mwLast.decidedAt + SECURITY_CONFIG.RATE_LIMIT_WINDOW)

(***************************************************************************)
(* Properties of the middleware                                            *)
(***************************************************************************)
\* C2: however the handlers interleave at their awaits, at most `limit`
\* requests of one key are passed by the rate limit within one window: in
\* the window the key's first request opened, and in every stored window.
C2_NoOverAdmission ==
  \A ip \in ClientIPs :
    /\ mwAdmitted[ip] <= SECURITY_CONFIG.RATE_LIMIT_MAX_REQUESTS
    /\ apiRateLimit[ip].present =>
         apiRateLimit[ip].count <= SECURITY_CONFIG.RATE_LIMIT_MAX_REQUESTS

\* More requests than the limit arrived for one key at one instant while
\* another invocation was suspended at its await; the last one got the 429.
C2_Witness ==
  /\ \E h \in Handlers : handlers[h].pc = "getToken"
  /\ mwLast.served /\ mwLast.rateChecked
  /\ mwLast.response = RateLimitResponse
  /\ mwSeq[mwLast.clientIP] > SECURITY_CONFIG.RATE_LIMIT_MAX_REQUESTS
  /\ mwAdmitted[mwLast.clientIP] = SECURITY_CONFIG.RATE_LIMIT_MAX_REQUESTS
  /\ now = mwFirstAt[mwLast.clientIP]

\* C3: a request to a protected admin path is forwarded only if its
\* credential verifies and now < expiresAt at the time of the decision.
C3_ForwardedOnlyIfUnexpired ==
  (mwLast.served /\ IsProtected(mwLast.req.path)
     /\ mwLast.response.kind = "next") =>
       /\ mwLast.req.cred.kind = "signed"
       /\ mwLast.req.cred.hasExp
       /\ mwLast.decidedAt < mwLast.req.cred.exp * 1000

\* The middleware has answered a request to a path its session gate covers.
GateDecided ==
  /\ mwLast.served
  /\ Matcher(mwLast.req.path)
  /\ IsProtected(mwLast.req.path)

\* C12: a request to a protected admin path that carries no session
\* credential is answered with a redirect to the login path whose callbackUrl
\* parameter is the requested path and which has no error=session_expired.
C12_NoCredentialRedirect ==
  (GateDecided /\ mwLast.req.cred.kind = "none") =>
     /\ mwLast.response.kind = "redirect"
     /\ mwLast.response.location = AdminLogin
     /\ mwLast.response.callbackUrl = mwLast.req.path
     /\ mwLast.response.error # "session_expired"

\* A request without a session cookie to /admin/products has been redirected.
C12_Witness ==
  /\ GateDecided
  /\ mwLast.req.path = AdminProducts
  /\ mwLast.req.cred = NoCred
  /\ mwLast.response.kind = "redirect"

\* C13: a request to a protected admin path with a correctly signed
\* credential whose expiresAt (a positive exp claim) is <= now, the instant
\* expiresAt = now included, is denied with a redirect to the login path
\* that carries callbackUrl and error=session_expired.
C13_ExpiredRedirect ==
  (GateDecided /\ mwLast.req.cred.kind = "signed" /\ mwLast.req.cred.hasExp
     /\ mwLast.req.cred.exp > 0
     /\ mwLast.req.cred.exp * 1000 <= mwLast.decidedAt) =>
     /\ mwLast.response.kind = "redirect"
     /\ mwLast.response.location = AdminLogin
     /\ mwLast.response.callbackUrl = mwLast.req.path
     /\ mwLast.response.error = "session_expired"

\* The SessionContext a verified token gives: subject, role, expiry
SessionContextOf(token) ==
  [attached |-> TRUE, subject |-> token.sub, role |-> token.role,
   expiry |-> token.exp]

\* C14: a request to a protected admin path with a valid credential that has
\* not expired (now < expiresAt) is forwarded, and the SessionContext derived
\* from the credential is attached to what is forwarded.
C14_ForwardedWithContext ==
  (GateDecided /\ mwLast.req.cred.kind = "signed" /\ mwLast.req.cred.hasExp
     /\ mwLast.decidedAt < mwLast.req.cred.exp * 1000) =>
     /\ mwLast.response.kind = "next"
     /\ mwLast.response.sessionContext =
          SessionContextOf(getToken(mwLast.req.cred))

\* The request has reached the application: the middleware passed it on, or
\* was not called for it.
ReachedApplication(response) == response.kind \in {"next", "direct"}

\* C15: every request whose path lies under /admin, the login route
\* excepted, reaches the application only through the session gate (with a
\* token that verifies and that the gate's expiry test passes); a request to
\* the login route without a credential is never redirected; and every
\* redirect of the gate goes to the login route, so that it cannot loop.
C15_GateCoversAdmin ==
  mwLast.served =>
    /\ (StartsWith(mwLast.req.path, <<"/admin">>)
          /\ mwLast.req.path # AdminLogin
          /\ ReachedApplication(mwLast.response)) =>
         /\ ~getToken(mwLast.req.cred).isNull
         /\ ~TokenExpired(getToken(mwLast.req.cred), mwLast.decidedAt)
    /\ (mwLast.req.path = AdminLogin /\ mwLast.req.cred.kind = "none") =>
         mwLast.response = NextResponseNext
    /\ mwLast.response.kind = "redirect" =>
         mwLast.response.location = AdminLogin

\* C17: every response the middleware produces carries the five security
\* headers, whatever the route class and the outcome: forwarded responses,
\* 429 denials, login redirects and public-localized responses.
C17_HeadersOnEveryResponse ==
  (mwLast.served /\ Matcher(mwLast.req.path)) => mwLast.response.secHeaders

\* The identity has used up its limit in a window that is still stored and
\* has not reached its resetTime.
Exhausted(map, cfg, clientIP, t) ==
  /\ map[clientIP].present
  /\ map[clientIP].count >= cfg.RATE_LIMIT_MAX_REQUESTS
  /\ t < map[clientIP].resetTime

\* C18: a request to an admin path is rate-limited before its authorization
\* check: a request of an identity that has exhausted its limit in the
\* current window never gets as far as the verification of its token.
C18_Step ==
  \A h \in Handlers :
    (handlers[h].pc = "idle" /\ handlers'[h].pc = "getToken") =>
      ~Exhausted(apiRateLimit, SECURITY_CONFIG,
                 getClientIP(handlers'[h].req), now)

C18_AdminRateLimited == [][C18_Step]_vars

\* A step in which a request arrives and is answered at once; mwLast' is
\* then the answer to that request.
AnsweredAtOnce ==
  /\ mwCount' = mwCount + 1
  /\ handlers' = handlers

\* C19: a request to an allow-listed public API path (/api/public/settings)
\* is never answered with 429 and leaves the rate-limit table as it was,
\* while a request to any other path under /api is rate-limited: it is
\* counted in a window of its identity or answered with 429.
C19_Step ==
  AnsweredAtOnce =>
    /\ StartsWith(mwLast'.req.path, ApiPublicSettings) =>
         /\ mwLast'.response.status # 429
         /\ apiRateLimit' = apiRateLimit
    /\ (StartsWith(mwLast'.req.path, <<"/api">>)
          /\ ~StartsWith(mwLast'.req.path, ApiPublicSettings)) =>
         /\ mwLast'.rateChecked
         /\ \/ mwLast'.response = RateLimitResponse
            \/ /\ mwLast'.post.present
               /\ apiRateLimit'[mwLast'.clientIP] = mwLast'.post

C19_PublicApiBypass == [][C19_Step]_vars

\* The four route classes, as the branches of the code take them
IsStaticClass(pathname) ==
  \/ ~Matcher(pathname)
  \/ /\ SkipsI18n(pathname)
     /\ ~StartsWith(pathname, <<"/admin">>)
     /\ ~StartsWith(pathname, <<"/api">>)

IsAdminClass(pathname) ==
  Matcher(pathname) /\ StartsWith(pathname, <<"/admin">>)

IsApiClass(pathname) ==
  Matcher(pathname) /\ StartsWith(pathname, <<"/api">>)

IsPublicClass(pathname) ==
  Matcher(pathname) /\ ~SkipsI18n(pathname)

ClassesOf(pathname) ==
  {c \in {"static/internal", "admin", "api", "public-localized"} :
     \/ c = "static/internal" /\ IsStaticClass(pathname)
     \/ c = "admin" /\ IsAdminClass(pathname)
     \/ c = "api" /\ IsApiClass(pathname)
     \/ c = "public-localized" /\ IsPublicClass(pathname)}

\* C20: every request is in exactly one route class; a request of the
\* static/internal class or of the public-localized class is never
\* rate-limited and never auth-gated: it gets no 429 and no login redirect,
\* it is never held for the verification of a token, and it leaves the
\* rate-limit table as it was.
C20_Step ==
  mwCount' = mwCount + 1 =>
    /\ \A h \in Handlers :
         (handlers[h].pc = "idle" /\ handlers'[h].pc = "getToken") =>
           ClassesOf(handlers'[h].req.path) = {"admin"}
    /\ handlers' = handlers =>
         /\ Cardinality(ClassesOf(mwLast'.req.path)) = 1
         /\ ClassesOf(mwLast'.req.path)
               \subseteq {"static/internal", "public-localized"} =>
              /\ mwLast'.response.status # 429
              /\ mwLast'.response.kind # "redirect"
              /\ ~mwLast'.rateChecked
              /\ apiRateLimit' = apiRateLimit

C20_RouteClasses == [][C20_Step]_vars

\* A public-localized request of an identity whose window is exhausted has
\* been answered with the response of the locale step.
C20_Witness ==
  /\ mwLast.served
  /\ mwLast.req.path = PublicAbout
  /\ mwLast.response = IntlResponse
  /\ Exhausted(apiRateLimit, SECURITY_CONFIG, mwLast.clientIP, now)

\* C10: of the requests one client IP sends to a general API path within 15
\* minutes of its first one, numbers 1 to 100 are passed on and number 101
\* gets HTTP 429 with the body {success: false, error: "Rate limit exceeded"}.
C10_EndToEnd ==
  (mwLast.served /\ mwLast.req.path = ApiProducts
     /\ mwLast.decidedAt < mwFirstAt[mwLast.clientIP] + 15 * 60 * 1000) =>
       /\ mwLast.n <= 100 => mwLast.response = NextResponseNext
       /\ mwLast.n = 101 =>
            /\ mwLast.response.status = 429
            /\ mwLast.response.kind = "json"
            /\ mwLast.response.body =
                 [success |-> FALSE, error |-> "Rate limit exceeded"]

\* Request 101 of the window has been answered.
C10_Witness ==
  /\ mwLast.served /\ mwLast.req.path = ApiProducts
  /\ mwLast.n = 101
  /\ mwLast.decidedAt < mwFirstAt[mwLast.clientIP] + 15 * 60 * 1000
  /\ mwLast.response.status = 429

(***************************************************************************)
(* Properties of the CSRF token manager                                    *)
(***************************************************************************)
\* validate(sessionKey, presentedToken) evaluated in the current state
Validates(s, v) ==
  validateCSRFToken(csrfTokens, CsrfReq("POST", s, "", v), v, now).result

\* the token issued last for a session that has had one, and when
Latest(s) ==
  [token |-> CHOOSE i \in csrfIssued[s] : \A j \in csrfIssued[s] : j <= i,
   at |-> csrfIssuedAt[s]]

\* the values a caller can present
Presentable == {NoToken, WrongToken} \cup (1..tokenCtr)

\* C4: after issue(sessionKey) returned t, validate(sessionKey, t) at the
\* same instant is true, validate(sessionKey, v) is false for every v other
\* than t, and validate(sessionKey, t) is false once expiresAt = issue time
\* + 24 h has passed, that is at every now > expiresAt (the instant
\* now = expiresAt itself is the subject of C9).
C4_RoundTrip ==
  \A s \in Sessions :
    csrfIssued[s] # {} =>
      LET i == Latest(s)
      IN  /\ now = i.at => Validates(s, i.token)
          /\ \A v \in Presentable \ {i.token} : ~Validates(s, v)
          /\ now > i.at + CSRF_LIFETIME => ~Validates(s, i.token)

\* The wrapper has validated the token of a session at the instant it was
\* issued and found it valid.
C4_Witness ==
  \E h \in CsrfHandlers :
    LET s == SessionTokenOf(csrfHandlers[h].req)
    IN  /\ csrfHandlers[h].pc = "validated"
        /\ csrfHandlers[h].isValid
        /\ s \in Sessions
        /\ csrfIssued[s] # {}
        /\ csrfHandlers[h].req.header = Latest(s).token
        /\ now = Latest(s).at

\* C5: after any sequence of issues for a session the stored token is the
\* one issued last: every token issued earlier fails validation, and at the
\* instant of the last issue exactly one value validates.
C5_ReissueInvalidatesOld ==
  \A s \in Sessions :
    csrfIssued[s] # {} =>
      LET i == Latest(s)
      IN  /\ \A j \in csrfIssued[s] : j # i.token => ~Validates(s, j)
          /\ csrfTokens[s].present => csrfTokens[s].token = i.token
          /\ now = i.at =>
               {v \in Presentable : Validates(s, v)} = {i.token}

\* A session has had two tokens, and the wrapper has since validated the
\* first one and rejected it.
C5_Witness ==
  /\ csrfLast.kind = "json" /\ csrfLast.status = 403
  /\ csrfLast.error = "Invalid CSRF token"
  /\ LET s == SessionTokenOf(csrfLast.req)
     IN  /\ s \in Sessions
         /\ Cardinality(csrfIssued[s]) >= 2
         /\ \E j \in csrfIssued[s] :
              /\ j # Latest(s).token
              /\ csrfLast.req.header = j

\* The 403 responses of the wrapper
MissingResponse(request) ==
  CsrfResponse("json", 403, FALSE, "CSRF token missing", NoToken, request)

InvalidResponse(request) ==
  CsrfResponse("json", 403, FALSE, "Invalid CSRF token", NoToken, request)

\* C6: for a request with a method other than GET the wrapped handler is not
\* invoked when CSRF validation fails: no token header gives 403 "CSRF token
\* missing", a token that does not validate gives 403 "Invalid CSRF token",
\* and the step that validates invokes nothing.
C6_Step ==
  /\ (csrfLast'.kind # "none" /\ csrfLast'.req.method # "GET"
        /\ csrfLast'.req.header = NoToken) =>
       csrfLast' = MissingResponse(csrfLast'.req)
  /\ \A h \in CsrfHandlers :
       /\ (csrfHandlers[h].pc = "idle" /\ csrfHandlers'[h].pc = "validated") =>
            /\ csrfLast' = csrfLast
            /\ csrfHandlers'[h].req.method # "GET"
            /\ csrfHandlers'[h].isValid =
                 validateCSRFToken(csrfTokens, csrfHandlers'[h].req,
                                   csrfHandlers'[h].req.header, now).result
       /\ (csrfHandlers[h].pc = "validated" /\ csrfHandlers'[h].pc = "idle"
             /\ ~csrfHandlers[h].isValid) =>
            csrfLast' = InvalidResponse(csrfHandlers[h].req)

C6_NoHandlerOnFailure == [][C6_Step]_vars

\* The wrapper has answered a POST whose token did not validate.
C6_Witness ==
  /\ csrfLast.req.method = "POST"
  /\ csrfLast = InvalidResponse(csrfLast.req)
  /\ csrfLast.req.header = WrongToken
  /\ SessionTokenOf(csrfLast.req) \in Sessions
  /\ csrfTokens[SessionTokenOf(csrfLast.req)].present

\* The request presents a token that was issued for a session other than the
\* one its session cookie names.
IssuedForOther(request) ==
  \E a \in Sessions :
    /\ a # SessionTokenOf(request)
    /\ request.header \in csrfIssued[a]

\* C11: a CSRF token issued for session A is never accepted on a request with
\* a method other than GET that presents the session credential of another
\* session B, whatever has been issued for B: validation of such a request
\* gives false and the wrapper answers 403 "Invalid CSRF token".
C11_NoCrossSessionToken ==
  /\ \A h \in CsrfHandlers :
       (csrfHandlers[h].pc = "validated" /\ IssuedForOther(csrfHandlers[h].req))
         => ~csrfHandlers[h].isValid
  /\ (csrfLast.kind # "none" /\ csrfLast.req.method # "GET"
        /\ IssuedForOther(csrfLast.req)) =>
       csrfLast = InvalidResponse(csrfLast.req)

\* The live token of s1 was presented with the cookie of s2, which has a live
\* token of its own, and the wrapper answered 403.
C11_Witness ==
  /\ csrfLast.req.method = "POST"
  /\ SessionTokenOf(csrfLast.req) = "s2"
  /\ csrfTokens["s1"].present /\ csrfTokens["s2"].present
  /\ csrfLast.req.header = csrfTokens["s1"].token
  /\ ~StoredExpired(csrfTokens["s1"], now)
  /\ csrfLast = InvalidResponse(csrfLast.req)

\* validate's contract: a token is stored for the session, its value is the
\* presented one, and now < expiresAt
Accepts(table, s, v, t) ==
  /\ s \in Sessions
  /\ table[s].present
  /\ table[s].token = v
  /\ t < table[s].expires

\* C9: validate(sessionKey, presentedToken) is true if and only if a token is
\* stored for sessionKey, its value equals presentedToken and now <
\* expiresAt; at now = expiresAt exactly the token is rejected.
C9_Step ==
  \A h \in CsrfHandlers :
    (csrfHandlers[h].pc = "idle" /\ csrfHandlers'[h].pc = "validated") =>
      (csrfHandlers'[h].isValid <=>
         Accepts(csrfTokens, SessionTokenOf(csrfHandlers'[h].req),
                 csrfHandlers'[h].req.header, now))

C9_ValidateIffLive == [][C9_Step]_vars

(***************************************************************************)
(* Properties of the whole pipeline                                        *)
(***************************************************************************)
\* The order of the stages as the claim gives it, and as the code has it.
ClaimedOrder == <<"identity", "rate", "csrf", "auth", "headers", "forward">>

CodeOrder == <<"identity", "headers", "rate", "csrf", "auth", "forward">>

Pos(stage, order) == CHOOSE k \in 1..Len(order) : order[k] = stage

\* The stages of the log follow each other as they do in order.
InOrder(log, order) ==
  \A i, j \in 1..Len(log) :
    i < j => Pos(log[i], order) < Pos(log[j], order)

\* The logs of all requests that are under way or were answered last
AllLogs ==
  {mwLast.req.route.log, csrfLast.req.log}
  \cup {handlers[h].req.route.log : h \in Handlers}
  \cup {csrfHandlers[h].req.log : h \in CsrfHandlers}
  \cup {routed[i].log : i \in 1..Len(routed)}

LastStage(log) == IF log = <<>> THEN "" ELSE log[Len(log)]

\* The stage that failed is the last one the request went through.
StopsAtFailure ==
  /\ mwLast.response = RateLimitResponse =>
       LastStage(mwLast.req.route.log) = "rate"
  /\ mwLast.response.kind = "redirect" =>
       LastStage(mwLast.req.route.log) = "auth"
  /\ csrfLast.status = 403 => LastStage(csrfLast.req.log) = "csrf"

\* A request to a rate-limited path whose identity has exhausted its window
\* is answered with the 429 at once: it is not held for the verification of
\* a token, not passed on to its route, and nothing of the CSRF token manager
\* runs for it.
ExhaustedStops ==
  (AnsweredAtOnce /\ Matcher(mwLast'.req.path)
     /\ IsRateLimited(mwLast'.req.path)
     /\ Exhausted(apiRateLimit, SECURITY_CONFIG, mwLast'.clientIP, now)) =>
    /\ mwLast'.response = RateLimitResponse
    /\ routed' = routed
    /\ csrfVars' = csrfVars

PipelineStep(order) ==
  /\ \A log \in AllLogs' : InOrder(log, order)
  /\ StopsAtFailure'
  /\ ExhaustedStops

SafeMethods == {"GET", "HEAD", "OPTIONS"}

\* The request has been through the stage.
InLog(routeRequest, stage) ==
  \E i \in 1..Len(routeRequest.log) : routeRequest.log[i] = stage

\* C21: CSRF validation applies only to state-changing methods: a request
\* with a safe method (GET, HEAD, OPTIONS) is never answered 403 by the
\* wrapper and reaches the wrapped handler without having been through the
\* CSRF tests, and a request with any other method reaches the handler only
\* after them.
C21_SafeMethodsBypass ==
  /\ csrfLast.status = 403 => csrfLast.req.method \notin SafeMethods
  /\ csrfLast.kind = "handler" =>
       (InLog(csrfLast.req, "csrf") <=> csrfLast.req.method \notin SafeMethods)

\* --- C22 ------------------------------------------------------------------
\* What next-auth makes of the value of the session cookie: the cookie of
\* session s1 is a JWT signed with NEXTAUTH_SECRET that expires after the
\* second rate-limit window, any other non-empty value does not verify.
SessionCookieJwt(value) ==
  IF value = "" THEN NoCred
  ELSE IF value = "s1" THEN LiveCred
  ELSE BadCred

\* The request carries a valid SessionContext at time t: its session cookie
\* verifies and is not expired.
CarriesValidSession(routeRequest, t) ==
  LET token == getToken(SessionCookieJwt(SessionTokenOf(routeRequest)))
  IN  ~token.isNull /\ ~TokenExpired(token, t)

\* The token endpoint has answered in this step.
EndpointAnswered ==
  /\ csrfLast' # csrfLast
  /\ csrfLast'.kind = "json"
  /\ csrfLast'.status \in {200, 401}

C22_Step ==
  EndpointAnswered =>
    IF CarriesValidSession(csrfLast'.req, now)
      THEN /\ csrfLast'.status = 200 /\ csrfLast'.success
           /\ csrfLast'.csrfToken # NoToken
           /\ csrfTokens'[SessionTokenOf(csrfLast'.req)].token =
                csrfLast'.csrfToken
      ELSE /\ csrfLast'.status = 401
           /\ csrfTokens' = csrfTokens

\* C22: the CSRF token retrieval endpoint issues and stores a token only for
\* a request carrying a valid SessionContext (verified, unexpired session)
\* and answers it {success: true, csrfToken}; any other request is answered
\* 401 and leaves the token table unchanged.
C22_TokenEndpointAuthenticated == [][C22_Step]_vars

\* --- C23 ------------------------------------------------------------------
\* The responses the admission layer defines: forward (of the middleware or
\* of the locale step), 429, 403 and redirect.
DefinedResponse(resp) ==
  \/ resp.kind \in {"next", "intl", "redirect"}
  \/ resp.kind = "json" /\ resp.status \in {429, 403}

\* C23: no fault inside the admission layer propagates to the caller: every
\* request the middleware has answered got one of the defined responses
\* (forward, 429, 403 or redirect), and a request to a gated path whose
\* credential is malformed got the login redirect, also when verification
\* threw on it.
C23_NoFaultPropagates ==
  mwLast.served =>
    /\ DefinedResponse(mwLast.response)
    /\ (IsProtected(mwLast.req.path) /\ mwLast.req.cred.kind = "bad"
          => mwLast.response = LoginRedirect(mwLast.req.path))

\* --- C24 ------------------------------------------------------------------
\* The settings other than the signing secret are well-formed: a known
\* environment tag, a postgresql connection string, and an http(s) base URL
\* that is https under production.
OthersWellFormed(env) ==
  /\ env.NODE_ENV \in {"development", "production", "test"}
  /\ env.DATABASE_URL # Unset /\ env.DATABASE_URL[1] = "postgresql://"
  /\ env.NEXTAUTH_URL # Unset
  /\ env.NEXTAUTH_URL[1] \in {"http://", "https://"}
  /\ env.NODE_ENV = "production" => env.NEXTAUTH_URL[1] = "https://"

\* C24: once the start-up validation has run, by either validator, a signing
\* secret shorter than 32 characters (for example one of 16) has made it
\* return valid = false, and a secret of 32 random characters with the other
\* settings well-formed has made it return valid = true.
C24_SecretLength ==
  boot # "loading" =>
    /\ (Length(processEnv.NEXTAUTH_SECRET) < 32 => ~envValidation.valid)
    /\ (processEnv.NEXTAUTH_SECRET = Random32 /\ OthersWellFormed(processEnv)
          => envValidation.valid)

\* A secret of 16 characters, everything else well-formed, was rejected.
C24_Witness ==
  /\ boot = "serving"
  /\ processEnv.NEXTAUTH_SECRET = Random16
  /\ OthersWellFormed(processEnv)
  /\ ~envValidation.valid

\* --- C25 ------------------------------------------------------------------
\* The messages of the validators about the form of the base URL
BaseUrlMessages ==
  {"NEXTAUTH_URL must use https:// in production",
   "NEXTAUTH_URL must use http:// or https:// protocol",
   "NEXTAUTH_URL is not a valid URL"}

Mentions(messages, about) ==
  \E i \in 1..Len(messages) : messages[i] \in about

\* the warnings of a validation result; the validator of lib/security.ts
\* returns none
WarningsOf(validation) ==
  IF "warnings" \in DOMAIN validation THEN validation.warnings ELSE <<>>

\* The settings other than the base URL are well-formed.
RestWellFormed(env) ==
  /\ env.DATABASE_URL # Unset /\ env.DATABASE_URL[1] = "postgresql://"
  /\ env.NEXTAUTH_SECRET = Random32

\* C25: once the start-up validation has run on a base URL that is http and
\* not https, under the tag production it has returned valid = false with an
\* entry about the base URL in errors, and under the tag development it has
\* returned no error about the base URL (valid = true when the rest is
\* well-formed) and an entry about it in warnings.
C25_HttpsInProduction ==
  boot # "loading" /\ processEnv.NEXTAUTH_URL = <<"http://", "namngam.com">>
    =>
    /\ processEnv.NODE_ENV = "production" =>
         /\ ~envValidation.valid
         /\ Mentions(envValidation.errors, BaseUrlMessages)
    /\ processEnv.NODE_ENV = "development" =>
         /\ ~Mentions(envValidation.errors, BaseUrlMessages)
         /\ RestWellFormed(processEnv) => envValidation.valid
         /\ Mentions(WarningsOf(envValidation), BaseUrlMessages)

C26_AbortWitness ==
  /\ boot = "aborted" /\ processEnv.NODE_ENV = "production"

\* --- C27 ------------------------------------------------------------------
\* The secrets of the model that are weak or default-style values:
\* placeholder words and repeated characters
WeakSecrets ==
  {WeakPassword, <<"password">> \o SubSeq(Random32, 1, 3),
   <<"Test">> \o Random32, Repeat("a", 16), Repeat("a", 32)}

\* C27: once the start-up validation has run on a NEXTAUTH_SECRET that is a
\* weak or default-style value (the test uses 'weakpassword'), it has
\* returned valid = false and its errors contain 'NEXTAUTH_SECRET appears to
\* be weak or default'.
C27_WeakSecretDetected ==
  boot # "loading" /\ processEnv.NEXTAUTH_SECRET \in WeakSecrets =>
    /\ ~envValidation.valid
    /\ Mentions(envValidation.errors,
                {"NEXTAUTH_SECRET appears to be weak or default"})

\* The same for the validator the claim cites alone and the secret of its
\* test: the start-up of the guide has run on 'weakpassword'.
C27_TestSecret ==
  /\ boot # "loading" /\ "warnings" \in DOMAIN envValidation
  /\ processEnv.NEXTAUTH_SECRET = WeakPassword
  => Mentions(envValidation.errors,
              {"NEXTAUTH_SECRET appears to be weak or default"})

\* --- C28 ------------------------------------------------------------------
\* C28: the identity the middleware resolved for the request it answered
\* last follows the precedence: the trimmed first comma-separated entry of
\* x-forwarded-for when that header has a value; else x-real-ip; else the
\* transport-level address; else "unknown".
C28_IdentityPrecedence ==
  mwLast.served =>
    LET request == mwLast.req
    IN  /\ request.forwarded # NoHeader =>
             mwLast.clientIP = Trim(request.forwarded[1])
        /\ request.forwarded = NoHeader /\ request.realIP # "" =>
             mwLast.clientIP = request.realIP
        /\ request.forwarded = NoHeader /\ request.realIP = ""
             /\ request.ip # "" =>
             mwLast.clientIP = request.ip
        /\ request.forwarded = NoHeader /\ request.realIP = ""
             /\ request.ip = "" =>
             mwLast.clientIP = "unknown"

\* All three sources were there and differed; the forwarded-for entry won.
C28_Witness ==
  /\ mwLast.served
  /\ mwLast.req.forwarded = <<" A", "B">>
  /\ mwLast.req.realIP = "B" /\ mwLast.req.ip = "A"
  /\ mwLast.clientIP = "A"

\* --- C29 ------------------------------------------------------------------
\* C29: getClientIP never fails and returns a non-empty string for every
\* combination of present, absent, empty or malformed headers and source
\* address: the identity resolved for the request answered last is not "".
C29_IdentityNonEmpty ==
  mwLast.served => mwLast.clientIP # ""

\* --- C30 ------------------------------------------------------------------
\* No entry of the table has a window that ended before t, and every entry
\* was made within the window that ends at t: its key was seen then.
SweptAt(table, cfg, t) ==
  \A k \in DOMAIN table :
    table[k].present =>
      /\ ~(table[k].resetTime < t)
      /\ t - cfg.RATE_LIMIT_WINDOW <= table[k].resetTime - cfg.RATE_LIMIT_WINDOW
      /\ table[k].resetTime - cfg.RATE_LIMIT_WINDOW <= t

\* C30: expired rate-limit entries are removed by the checks.  After a check
\* made at time now, by rateLimit on rateLimitStore or by the middleware on
\* apiRateLimit, the table holds no entry whose window ended before now, of
\* whatever key, so that it holds at most the keys seen in the last window.
C30_ExpiredEntriesRemoved ==
  /\ rlLast.called /\ rlLast.at = now =>
       SweptAt(rateLimitStore, SECURITY_CONFIG, now)
  /\ mwLast.served /\ mwLast.rateChecked /\ mwLast.decidedAt = now =>
       SweptAt(apiRateLimit, SECURITY_CONFIG, now)

\* A check of one key has removed the expired entry of the other key.
C30_Witness ==
  /\ rlLast.called /\ rlLast.at = now /\ rlLast.key = "upload:A"
  /\ rlSeq["login:A"] > 0
  /\ ~rateLimitStore["login:A"].present

\* --- C31 ------------------------------------------------------------------
\* The last rateLimit call found a live window of its key: the clean-up left
\* the entry in place.
FoundLiveWindow ==
  /\ rlLast.called /\ rlLast.pre.present
  /\ ~IsOldEntry(rlLast.pre, rlLast.at)

\* C31: the result of rateLimit is that of the reference fixed-window
\* operator.  A check that finds a live window and is allowed reports
\* remaining = limit - count, count being the stored count after the
\* increment; a rejected check reports remaining = 0 and resetAt = the
\* resetTime of the window (window start + window length).
C31_ReferenceResult ==
  FoundLiveWindow =>
    IF rlLast.result.success
      THEN /\ rlLast.result.hasRemaining
           /\ rlLast.result.remaining = rlLast.limit - rlLast.post.count
      ELSE /\ rlLast.result.hasRemaining
           /\ rlLast.result.remaining = 0
           /\ rlLast.result.hasResetTime
           /\ rlLast.result.resetTime = rlLast.pre.resetTime

\* The same without the remaining field of a rejection, which the code does
\* not return.
C31_ExceptRemaining ==
  FoundLiveWindow =>
    IF rlLast.result.success
      THEN /\ rlLast.result.hasRemaining
           /\ rlLast.result.remaining = rlLast.limit - rlLast.post.count
      ELSE /\ rlLast.result.hasResetTime
           /\ rlLast.result.resetTime = rlLast.pre.resetTime

\* --- C32 ------------------------------------------------------------------
\* The window of the key that the first request opened has ended before this
\* call's request, and the request before it was still inside that window.
FirstAfterWindow ==
  /\ redisLast.called /\ ~redisLast.failed /\ redisLast.n > 1
  /\ redisLast.limit >= 1
  /\ redisLast.execAt >
       redisLast.firstAt + SECURITY_CONFIG.RATE_LIMIT_WINDOW
  /\ redisLast.prevAt <
       redisLast.firstAt + SECURITY_CONFIG.RATE_LIMIT_WINDOW

\* C32: redisRateLimit implements a fixed window: the window of a key ends
\* windowLength after its first request whatever requests follow, so the
\* first request made after that, also by a caller that went on sending while
\* rejected, is admitted.
C32_RedisFixedWindow ==
  FirstAfterWindow => redisLast.result.success

MwFoundLiveWindow ==
  /\ mwLast.served /\ mwLast.rateChecked /\ mwLast.pre.present
  /\ ~MwIsOldEntry(mwLast.pre, mwLast.decidedAt)

\* Frame of a check on a live window: a rejected one leaves the entry as it
\* was, an admitted one adds exactly 1 to count and keeps resetTime.
C34_Frame ==
  /\ FoundLiveWindow =>
       IF rlLast.result.success
         THEN rlLast.post = Entry(rlLast.pre.count + 1, rlLast.pre.resetTime)
         ELSE rlLast.post = rlLast.pre
  /\ MwFoundLiveWindow =>
       IF mwLast.response = RateLimitResponse
         THEN mwLast.post = mwLast.pre
         ELSE mwLast.post = Entry(mwLast.pre.count + 1, mwLast.pre.resetTime)

\* The stored count is at most the limit it was checked against.
C34_CountBound ==
  /\ rlLast.called => rlLast.post.count <= rlLast.limit
  /\ mwLast.served /\ mwLast.rateChecked =>
       mwLast.post.count <= SECURITY_CONFIG.RATE_LIMIT_MAX_REQUESTS

\* C34: in the in-memory limiters a rejected check leaves the key's window
\* unchanged, an admitted check on a live window increments count by exactly
\* 1 and never changes resetTime, and the stored count of a window never
\* exceeds the limit it was checked against.
C34_FrameAndBound == C34_Frame /\ C34_CountBound

\* The bound for limits of 1 and more.
C34_CountBoundPositive ==
  rlLast.called /\ rlLast.limit >= 1 => rlLast.post.count <= rlLast.limit

\* --- C35 ------------------------------------------------------------------
\* C35: for every non-negative limit, 0 included, no result with success =
\* true carries a negative remaining, and under a limit of 0 no check is
\* admitted; for rateLimit and for redisRateLimit.
C35_NonNegativeRemaining ==
  /\ rlLast.called =>
       /\ rlLast.result.success /\ rlLast.result.hasRemaining =>
            rlLast.result.remaining >= 0
       /\ rlLast.limit = 0 => ~rlLast.result.success
  /\ redisLast.called =>
       /\ redisLast.result.success => redisLast.result.remaining >= 0
       /\ redisLast.limit = 0 => ~redisLast.result.success

\* The same for redisRateLimit while the store answers.
C35_RedisAnswering ==
  redisLast.called /\ ~redisLast.failed =>
    /\ redisLast.result.success => redisLast.result.remaining >= 0
    /\ redisLast.limit = 0 => ~redisLast.result.success

\* --- C36 ------------------------------------------------------------------
\* Every entry of the table, but that of key, whose window has not ended at
\* time t is the same in after.
OthersKept(table, after, key, t) ==
  \A j \in DOMAIN table \ {key} :
    table[j].present /\ table[j].resetTime > t => after[j] = table[j]

C36_Step ==
  /\ \A k \in Identifiers :
       rlSeq'[k] # rlSeq[k] =>
         OthersKept(rateLimitStore, rateLimitStore', k, now)
  /\ \A k \in ClientIPs :
       mwSeq'[k] # mwSeq[k] =>
         OthersKept(apiRateLimit, apiRateLimit', k, now)

\* C36: windows of distinct keys are independent: a check on one key, with
\* the clean-up it runs, neither changes nor removes the live window of
\* another key, in rateLimit and in the middleware.
C36_KeysIndependent == [][C36_Step]_vars

\* A key was checked while the other key had a live window with a count.
C36_Witness ==
  /\ rlLast.called /\ rlLast.at = now /\ rlLast.key = "upload:A"
  /\ rateLimitStore["login:A"].present
  /\ rateLimitStore["login:A"].resetTime > now
  /\ rateLimitStore["login:A"].count >= 1
  /\ rateLimitStore["upload:A"].present

\* C37: validation does not consume a token.  A validation changes the token
\* table at most by deleting the entry of the presenting session, and only
\* when that entry has expired; the entries of the other sessions are kept.
\* A request that presents the token stored for its session before the
\* token's expiry is found valid and leaves the table as it was, however
\* often the token was presented before.
ValidationRuns(h) ==
  /\ csrfHandlers[h].pc = "idle"
  /\ csrfHandlers'[h].pc = "validated"

C37_Step ==
  \A h \in CsrfHandlers :
    ValidationRuns(h) =>
      LET request == csrfHandlers'[h].req
          s == SessionTokenOf(request)
      IN  /\ \A k \in Sessions \ {s} : csrfTokens'[k] = csrfTokens[k]
          /\ s \in Sessions =>
                \/ csrfTokens'[s] = csrfTokens[s]
                \/ /\ csrfTokens[s].present
                   /\ now > csrfTokens[s].expires
                   /\ csrfTokens'[s] = NoStored
          /\ ( /\ s \in Sessions
               /\ csrfTokens[s].present
               /\ csrfTokens[s].token = request.header
               /\ ~(now > csrfTokens[s].expires) )
               => /\ csrfHandlers'[h].isValid
                  /\ csrfTokens' = csrfTokens

C37_ValidationKeepsToken == [][C37_Step]_vars

\* One token accepted by a first validation, accepted again by a second one
\* and still stored for its session.
C37_Witness ==
  /\ csrfLast.kind = "handler"
  /\ csrfLast.req.method = "POST"
  /\ SessionTokenOf(csrfLast.req) \in Sessions
  /\ \E h \in CsrfHandlers :
       /\ csrfHandlers[h].pc = "validated"
       /\ csrfHandlers[h].isValid
       /\ csrfHandlers[h].req.header = csrfLast.req.header
       /\ SessionTokenOf(csrfHandlers[h].req) = SessionTokenOf(csrfLast.req)
       /\ csrfTokens[SessionTokenOf(csrfLast.req)].token = csrfLast.req.header

\* C38: every request a client sends through fetchWithCSRF carries the token
\* the server currently stores for the session, so the validation of the
\* wrapper finds it valid: no fetch of another client and no expiry leaves a
\* cached token stale.
C38_SentTokenCurrent ==
  \A h \in CsrfHandlers :
    csrfHandlers[h].pc = "validated" => csrfHandlers[h].isValid

\* What does hold: a client with a stale token never fetches another one, as
\* its csrfToken variable, once set, keeps its value.
C38_CacheKept ==
  [][\A c \in Clients :
       ~NotCached(clients[c].csrfToken) =>
         clients'[c].csrfToken = clients[c].csrfToken]_vars

\* C39: the block inlined in the middleware and rateLimit are equivalent.
\* After every check made by both at the same time, under paired keys and
\* with the same limit and window length, the two decide alike (rateLimit
\* returns success exactly when the middleware does not answer 429) and the
\* two tables hold the same window under every pair of keys.
C39_Equivalent ==
  Balanced =>
    /\ \A k \in Identifiers : rateLimitStore[k] = apiRateLimit[PairedIP(k)]
    /\ rlLast.called =>
         /\ mwLast.served
         /\ mwLast.clientIP = PairedIP(rlLast.key)
         /\ mwLast.decidedAt = rlLast.at
         /\ rlLast.result.success = (mwLast.response.status # 429)

\* Both have rejected a check, in a window opened after time has passed.
C39_Witness ==
  /\ Balanced
  /\ rlLast.called /\ ~rlLast.result.success
  /\ mwLast.served /\ mwLast.response.status = 429
  /\ rlLast.pre.resetTime > RATE_LIMIT_WINDOW

====
